---- MODULE Spec2Model ----
(***************************************************************************)
(* Maze puzzle engine (backend/app/puzzle_engine.py): grid validation,     *)
(* portal resolution and the move loop of validate_moves.                  *)
(*                                                                         *)
(* Python strings (cell codes, move tokens, key identifiers) are tuples    *)
(* of one-character strings, so that startswith, strip, upper and the      *)
(* f-string formatting of key identifiers are computed, not assumed.       *)
(***************************************************************************)
EXTENDS Integers, Sequences, FiniteSets, TLC

(* ------------------------------------------------------------------ *)
(* Bounds of the model                                                 *)
(* ------------------------------------------------------------------ *)
MaxMoves == 3
MaxChain == 11
MaxChainMoves == 2
TinyCols == 3

(* ------------------------------------------------------------------ *)
(* Strings                                                             *)
(* ------------------------------------------------------------------ *)
Digit(d) ==
    CASE d = 0 -> "0" [] d = 1 -> "1" [] d = 2 -> "2" [] d = 3 -> "3"
      [] d = 4 -> "4" [] d = 5 -> "5" [] d = 6 -> "6" [] d = 7 -> "7"
      [] d = 8 -> "8" [] OTHER -> "9"

RECURSIVE StrNat(_)
StrNat(n) == IF n < 10 THEN <<Digit(n)>> ELSE StrNat(n \div 10) \o <<Digit(n % 10)>>

\* str(n) of a Python int
Str(n) == IF n < 0 THEN <<"-">> \o StrNat(0 - n) ELSE StrNat(n)

StartsWithP(s) == Len(s) > 0 /\ s[1] = "P"

\* a cell value that is not a Python str (an int, None, a list): it equals no code
NonStr == <<"<nonstr>">>
IsStr(cell) == cell # NonStr

IsSpace(ch) == ch \in {" ", "\t", "\n"}

RECURSIVE LStrip(_)
LStrip(s) == IF Len(s) > 0 /\ IsSpace(s[1]) THEN LStrip(Tail(s)) ELSE s

RECURSIVE RStrip(_)
RStrip(s) ==
    IF Len(s) > 0 /\ IsSpace(s[Len(s)]) THEN RStrip(SubSeq(s, 1, Len(s) - 1)) ELSE s

Strip(s) == RStrip(LStrip(s))

UpperChar(ch) ==
    CASE ch = "a" -> "A" [] ch = "b" -> "B" [] ch = "c" -> "C" [] ch = "d" -> "D"
      [] ch = "e" -> "E" [] ch = "f" -> "F" [] ch = "g" -> "G" [] ch = "h" -> "H"
      [] ch = "i" -> "I" [] ch = "j" -> "J" [] ch = "k" -> "K" [] ch = "l" -> "L"
      [] ch = "m" -> "M" [] ch = "n" -> "N" [] ch = "o" -> "O" [] ch = "p" -> "P"
      [] ch = "q" -> "Q" [] ch = "r" -> "R" [] ch = "s" -> "S" [] ch = "t" -> "T"
      [] ch = "u" -> "U" [] ch = "v" -> "V" [] ch = "w" -> "W" [] ch = "x" -> "X"
      [] ch = "y" -> "Y" [] ch = "z" -> "Z" [] OTHER -> ch

Upper(s) == [k \in 1..Len(s) |-> UpperChar(s[k])]

\* the token trimmed but not upper-cased
NormalizeStripOnly(move) == Strip(move)

\* move.strip().upper()
Normalize(move) == Upper(Strip(move))

(* ------------------------------------------------------------------ *)
(* Cell codes, move tokens, positions                                  *)
(* ------------------------------------------------------------------ *)
EMPTY == <<" ">>
START == <<"S">>
GOAL == <<"G">>
WALL == <<"W">>
KEY == <<"K">>
DOOR == <<"D">>

UP == <<"U", "P">>
DOWN == <<"D", "O", "W", "N">>
LEFT == <<"L", "E", "F", "T">>
RIGHT == <<"R", "I", "G", "H", "T">>

Pos(r, c) == [r |-> r, c |-> c]

\* the table with DOWN leading up
MOVES_down_is_up ==
    (UP :> Pos(-1, 0)) @@ (DOWN :> Pos(-1, 0)) @@ (LEFT :> Pos(0, -1)) @@ (RIGHT :> Pos(0, 1))

MOVES ==
    (UP :> Pos(-1, 0)) @@ (DOWN :> Pos(1, 0)) @@ (LEFT :> Pos(0, -1)) @@ (RIGHT :> Pos(0, 1))

max_jumps == 10
default_max_steps == 1000

(* ------------------------------------------------------------------ *)
(* Messages: the f-strings of the engine, as records                   *)
(* ------------------------------------------------------------------ *)
NoPos == Pos(-1, -1)

Msg(tag) ==
    [prefix |-> "", tag |-> tag, index |-> 0, move |-> <<>>, pos |-> NoPos,
     label |-> <<>>, n |-> 0, m |-> 0]

OK == Msg("OK")

(* ------------------------------------------------------------------ *)
(* Helpers of the engine                                               *)
(* ------------------------------------------------------------------ *)
\* an unknown token taken as a move that stays in place
apply_move_lenient(pos, move) ==
    IF move \notin DOMAIN MOVES
    THEN [ok |-> TRUE, pos |-> pos]
    ELSE [ok |-> TRUE, pos |-> Pos(pos.r + MOVES[move].r, pos.c + MOVES[move].c)]

\* apply_move: [ok, pos]; ok = FALSE stands for the raised PuzzleValidationError
apply_move(pos, move) ==
    IF move \notin DOMAIN MOVES
    THEN [ok |-> FALSE, pos |-> pos]
    ELSE [ok |-> TRUE, pos |-> Pos(pos.r + MOVES[move].r, pos.c + MOVES[move].c)]

\* the last row and the last column taken as outside
is_position_valid_short(pos, rows, cols) ==
    0 <= pos.r /\ pos.r < rows - 1 /\ 0 <= pos.c /\ pos.c < cols - 1

is_position_valid(pos, rows, cols) ==
    0 <= pos.r /\ pos.r < rows /\ 0 <= pos.c /\ pos.c < cols

get_cell_content(grid, pos) == grid[pos.r + 1][pos.c + 1]

(* ------------------------------------------------------------------ *)
(* Grid descriptions                                                   *)
(*   fields  : the keys present in the grid_data dict                  *)
(*   portals : the portals dict, as a set of [label, target] entries   *)
(*   rules   : the rules dict; rules.given are the keys present        *)
(* ------------------------------------------------------------------ *)
required_fields == <<"rows", "cols", "start", "goal", "cells">>
AllFields == {"rows", "cols", "start", "goal", "cells", "portals", "rules"}
allowed_literals == {EMPTY, START, GOAL, WALL, KEY, DOOR}

Rules(given, ms, drk, cak) ==
    [given |-> given, max_steps |-> ms, doors_require_keys |-> drk, collect_all_keys |-> cak]

NoRules == Rules({}, 0, FALSE, FALSE)

Grid(fields, rows, cols, start, goal, cells, portals, rules) ==
    [fields |-> fields, rows |-> rows, cols |-> cols, start |-> start, goal |-> goal,
     cells |-> cells, portals |-> portals, rules |-> rules]

\* grid_data.get("portals", {})
PortalsOf(g) == IF "portals" \in g.fields THEN g.portals ELSE {}

\* grid_data.get("rules", {}).get(key, default)
RuleOf(g, key, default) ==
    IF "rules" \in g.fields /\ key \in g.rules.given THEN g.rules[key] ELSE default

InPortals(portals, label) == \E e \in portals : e.label = label
PortalTarget(portals, label) == (CHOOSE e \in portals : e.label = label).target

\* row.count(code) summed over the rows
CountCells(cells, code) ==
    Cardinality({rc \in UNION {{<<r, c>> : c \in 1..Len(cells[r])} : r \in 1..Len(cells)} :
                    cells[rc[1]][rc[2]] = code})

(* ------------------------------------------------------------------ *)
(* validate_puzzle_grid: OK, or the message of the first error raised  *)
(* ------------------------------------------------------------------ *)
\* the first cell, in row-major order, that the content loop rejects
BadCells(cells) ==
    {rc \in UNION {{<<r, c>> : c \in 1..Len(cells[r])} : r \in 1..Len(cells)} :
        \/ ~IsStr(cells[rc[1]][rc[2]])
        \/ (cells[rc[1]][rc[2]] \notin allowed_literals /\ ~StartsWithP(cells[rc[1]][rc[2]]))}

FirstRowMajor(S) ==
    CHOOSE rc \in S : \A o \in S : rc[1] < o[1] \/ (rc[1] = o[1] /\ rc[2] <= o[2])

\* the count of 'G' cells left unchecked
CheckCountsStartOnly(g) ==
    LET start_count == CountCells(g.cells, START)
    IN  IF start_count # 1 THEN [Msg("StartCount") EXCEPT !.n = start_count] ELSE OK

CheckCounts(g) ==
    LET start_count == CountCells(g.cells, START)
        goal_count == CountCells(g.cells, GOAL)
    IN  IF start_count # 1 THEN [Msg("StartCount") EXCEPT !.n = start_count]
        ELSE IF goal_count # 1 THEN [Msg("GoalCount") EXCEPT !.n = goal_count]
        ELSE OK

\* a portal cell whose label the mapping lacks refused by the validation
CheckStartGoalCellsPortalsMapped(g) ==
    IF \E rc \in UNION {{<<r, c>> : c \in 1..Len(g.cells[r])} : r \in 1..Len(g.cells)} :
          /\ StartsWithP(g.cells[rc[1]][rc[2]])
          /\ ~InPortals(PortalsOf(g), g.cells[rc[1]][rc[2]])
    THEN Msg("UnknownCell")
    ELSE IF get_cell_content(g.cells, g.start) # START THEN Msg("StartMismatch")
    ELSE IF get_cell_content(g.cells, g.goal) # GOAL THEN Msg("GoalMismatch")
    ELSE CheckCounts(g)

\* the cell at the goal position left unchecked
CheckStartCellOnly(g) ==
    IF get_cell_content(g.cells, g.start) # START THEN Msg("StartMismatch")
    ELSE CheckCounts(g)

\* the counts of 'S' and 'G' cells checked before the cells at start and goal
CheckCountsBeforeCells(g) ==
    IF CheckCounts(g) # OK THEN CheckCounts(g)
    ELSE IF get_cell_content(g.cells, g.start) # START THEN Msg("StartMismatch")
    ELSE IF get_cell_content(g.cells, g.goal) # GOAL THEN Msg("GoalMismatch")
    ELSE OK

CheckStartGoalCells(g) ==
    IF get_cell_content(g.cells, g.start) # START THEN Msg("StartMismatch")
    ELSE IF get_cell_content(g.cells, g.goal) # GOAL THEN Msg("GoalMismatch")
    ELSE CheckCounts(g)

CheckCellContents(g) ==
    IF BadCells(g.cells) # {}
    THEN LET rc == FirstRowMajor(BadCells(g.cells))
             cell == g.cells[rc[1]][rc[2]]
         IN  IF ~IsStr(cell)
             THEN [Msg("CellType") EXCEPT !.pos = Pos(rc[1] - 1, rc[2] - 1)]
             ELSE [Msg("UnknownCell") EXCEPT !.pos = Pos(rc[1] - 1, rc[2] - 1), !.label = cell]
    ELSE CheckStartGoalCells(g)

\* the cell codes examined before the start and goal positions
CheckCellsBeforeBounds(g) ==
    IF BadCells(g.cells) # {}
    THEN LET rc == FirstRowMajor(BadCells(g.cells))
             cell == g.cells[rc[1]][rc[2]]
         IN  IF ~IsStr(cell)
             THEN [Msg("CellType") EXCEPT !.pos = Pos(rc[1] - 1, rc[2] - 1)]
             ELSE [Msg("UnknownCell") EXCEPT !.pos = Pos(rc[1] - 1, rc[2] - 1), !.label = cell]
    ELSE IF ~is_position_valid(g.start, g.rows, g.cols)
    THEN [Msg("StartOutOfBounds") EXCEPT !.pos = g.start]
    ELSE IF ~is_position_valid(g.goal, g.rows, g.cols)
    THEN [Msg("GoalOutOfBounds") EXCEPT !.pos = g.goal]
    ELSE CheckCellContents(g)

CheckStartGoalBounds(g) ==
    IF ~is_position_valid(g.start, g.rows, g.cols)
    THEN [Msg("StartOutOfBounds") EXCEPT !.pos = g.start]
    ELSE IF ~is_position_valid(g.goal, g.rows, g.cols)
    THEN [Msg("GoalOutOfBounds") EXCEPT !.pos = g.goal]
    ELSE CheckCellContents(g)

CheckDimensions(g) ==
    IF g.rows <= 0 \/ g.cols <= 0 THEN Msg("Dimensions")
    ELSE IF Len(g.cells) # g.rows
    THEN [Msg("RowCount") EXCEPT !.n = g.rows, !.m = Len(g.cells)]
    ELSE IF \E i \in 1..Len(g.cells) : Len(g.cells[i]) # g.cols
    THEN LET i == CHOOSE k \in 1..Len(g.cells) :
                      /\ Len(g.cells[k]) # g.cols
                      /\ \A j \in 1..(k - 1) : Len(g.cells[j]) = g.cols
         IN  [Msg("RowLength") EXCEPT !.index = i - 1, !.n = Len(g.cells[i]), !.m = g.cols]
    ELSE CheckStartGoalBounds(g)

validate_puzzle_grid(g) ==
    IF \E k \in 1..Len(required_fields) : required_fields[k] \notin g.fields
    THEN LET k == CHOOSE j \in 1..Len(required_fields) :
                      /\ required_fields[j] \notin g.fields
                      /\ \A h \in 1..(j - 1) : required_fields[h] \in g.fields
         IN  [Msg("MissingField") EXCEPT !.index = k]
    ELSE CheckDimensions(g)

(* ------------------------------------------------------------------ *)
(* State                                                               *)
(*   grid_data, moves : the arguments of validate_moves                *)
(*   calls            : the frame of each call of validate_moves on    *)
(*                      these arguments (locals, position in the code, *)
(*                      the frame of resolve_portals, the outcome)     *)
(* ------------------------------------------------------------------ *)
VARIABLES grid_data, moves, calls

vars == <<grid_data, moves, calls>>

CallIds == {1, 2}

NoResult ==
    [kind |-> "none", success |-> FALSE, message |-> Msg("none"), steps |-> 0,
     keys_collected |-> <<>>, trace |-> <<>>, final_position |-> NoPos]

Idle ==
    [pc |-> "idle", i |-> 0, pos |-> NoPos, keys_collected |-> {}, trace |-> <<>>,
     steps |-> 0, new_pos |-> NoPos, current |-> NoPos, jumps_made |-> 0,
     visited_labels |-> {}, teleport_trace |-> <<>>, iters |-> 0, result |-> NoResult]

\* a key identifier that leaves the row out
KeyIdColumnOnly(pos) == <<"k", "e", "y", "_">> \o Str(pos.c)

\* key_id = f"key_{pos['r']}_{pos['c']}"
KeyId(pos) == <<"k", "e", "y", "_">> \o Str(pos.r) \o <<"_">> \o Str(pos.c)

\* list(keys_collected): the iteration order of a set of str is not fixed
\* (it follows the per-process string hashing), so every order is possible
KeysList(S) ==
    {l \in [1..Cardinality(S) -> S] : \A a, b \in 1..Cardinality(S) : a # b => l[a] # l[b]}

\* the max_steps rule of the grid ignored
max_steps_default_only(g) == default_max_steps

max_steps(g) == RuleOf(g, "max_steps", default_max_steps)
doors_require_keys(g) == RuleOf(g, "doors_require_keys", TRUE)
collect_all_keys(g) == RuleOf(g, "collect_all_keys", FALSE)
total_keys(g) == IF collect_all_keys(g) THEN CountCells(g.cells, KEY) ELSE 0

(* ------------------------------------------------------------------ *)
(* Outcomes of a call: the frames after a return / a raise             *)
(* ------------------------------------------------------------------ *)
\* a result that counts the completed moves only
ReturnedCompleted(st, success, message) ==
    {[st EXCEPT !.pc = "done",
                !.result = [kind |-> "returned", success |-> success, message |-> message,
                            steps |-> st.i, keys_collected |-> l, trace |-> st.trace,
                            final_position |-> st.pos]] : l \in KeysList(st.keys_collected)}

Returned(st, success, message) ==
    {[st EXCEPT !.pc = "done",
                !.result = [kind |-> "returned", success |-> success, message |-> message,
                            steps |-> st.steps, keys_collected |-> l, trace |-> st.trace,
                            final_position |-> st.pos]] : l \in KeysList(st.keys_collected)}

\* the structural error folded into a failed result
RaisedAsResult(st, message) ==
    {[st EXCEPT !.pc = "done",
                !.result = [NoResult EXCEPT !.kind = "returned", !.message = message]]}

\* raise PuzzleValidationError(f"Puzzle validation failed: {str(e)}")
Raised(st, message) ==
    {[st EXCEPT !.pc = "raised",
                !.result = [NoResult EXCEPT !.kind = "raised",
                                            !.message = [message EXCEPT
                                                !.prefix = "Puzzle validation failed"]]]}

(* ------------------------------------------------------------------ *)
(* validate_moves, lines 366-409: the move lands on new_pos            *)
(* ------------------------------------------------------------------ *)
\* the goal reached is a success whatever keys are held
GoalCheckKeysIgnored(st, g) ==
    IF st.pos = g.goal
    THEN Returned(st, TRUE, [Msg("GoalReached") EXCEPT !.n = st.steps])
    ELSE {[st EXCEPT !.pc = "loop", !.i = st.i + 1]}

GoalCheck(st, g) ==
    IF st.pos = g.goal
    THEN IF collect_all_keys(g) /\ Cardinality(st.keys_collected) < total_keys(g)
         THEN Returned(st, FALSE, [Msg("MustCollectAllKeys") EXCEPT
                                      !.n = total_keys(g), !.m = Cardinality(st.keys_collected)])
         ELSE Returned(st, TRUE, [Msg("GoalReached") EXCEPT !.n = st.steps])
    ELSE {[st EXCEPT !.pc = "loop", !.i = st.i + 1]}

\* a door that uses up the keys held
LandConsumesKey(st, g, new_pos, cell, teleported) ==
    LET moved == [st EXCEPT !.pos = new_pos, !.new_pos = new_pos, !.trace = (st.trace \o teleported) \o <<new_pos>>]
    IN  IF cell = KEY
        THEN GoalCheck([moved EXCEPT !.keys_collected = moved.keys_collected \cup {KeyId(new_pos)}], g)
        ELSE IF cell = DOOR
        THEN IF doors_require_keys(g) /\ Cardinality(moved.keys_collected) = 0
             THEN Returned(moved, FALSE, [Msg("DoorRequiresKey") EXCEPT !.pos = new_pos])
             ELSE GoalCheck([moved EXCEPT !.keys_collected = {}], g)
        ELSE GoalCheck(moved, g)

\* a key identifier per visit: it carries the step at which the key was taken
LandKeyPerVisit(st, g, new_pos, cell, teleported) ==
    LET moved == [st EXCEPT !.pos = new_pos, !.new_pos = new_pos, !.trace = (st.trace \o teleported) \o <<new_pos>>]
    IN  IF cell = KEY
        THEN GoalCheck([moved EXCEPT !.keys_collected =
                           moved.keys_collected \cup {(KeyId(new_pos) \o <<"_">>) \o Str(st.steps)}], g)
        ELSE IF cell = DOOR
        THEN IF doors_require_keys(g) /\ Cardinality(moved.keys_collected) = 0
             THEN Returned(moved, FALSE, [Msg("DoorRequiresKey") EXCEPT !.pos = new_pos])
             ELSE GoalCheck(moved, g)
        ELSE GoalCheck(moved, g)

\* the locked door refused before the move is applied
LandDoorBeforeMove(st, g, new_pos, cell, teleported) ==
    LET moved == [st EXCEPT !.pos = new_pos, !.new_pos = new_pos, !.trace = (st.trace \o teleported) \o <<new_pos>>]
    IN  IF cell = KEY
        THEN GoalCheck([moved EXCEPT !.keys_collected = moved.keys_collected \cup {KeyId(new_pos)}], g)
        ELSE IF cell = DOOR
        THEN IF doors_require_keys(g) /\ Cardinality(moved.keys_collected) = 0
             THEN Returned(st, FALSE, [Msg("DoorRequiresKey") EXCEPT !.pos = new_pos])
             ELSE GoalCheck(moved, g)
        ELSE GoalCheck(moved, g)

Land(st, g, new_pos, cell, teleported) ==
    LET moved == [st EXCEPT !.pos = new_pos, !.new_pos = new_pos, !.trace = (st.trace \o teleported) \o <<new_pos>>]
    IN  IF cell = KEY
        THEN GoalCheck([moved EXCEPT !.keys_collected = moved.keys_collected \cup {KeyId(new_pos)}], g)
        ELSE IF cell = DOOR
        THEN IF doors_require_keys(g) /\ Cardinality(moved.keys_collected) = 0
             THEN Returned(moved, FALSE, [Msg("DoorRequiresKey") EXCEPT !.pos = new_pos])
             ELSE GoalCheck(moved, g)
        ELSE GoalCheck(moved, g)

(* ------------------------------------------------------------------ *)
(* resolve_portals: one iteration of its while loop; the iteration     *)
(* that leaves the loop runs on to the return into validate_moves      *)
(* ------------------------------------------------------------------ *)
\* resolve_portals failing with an error the inner handler does not catch
PortalErrorUncaught(st, message) == Raised(st, message)

\* the hops followed before the error kept in the trace
PortalErrorKeepsHops(st, message) ==
    Returned([st EXCEPT !.trace = st.trace \o st.teleport_trace], FALSE,
             [message EXCEPT !.prefix = "Portal error"])

\* lines 356-364
PortalError(st, message) ==
    Returned(st, FALSE, [message EXCEPT !.prefix = "Portal error"])

\* the hops of the chain left out of the running trace
ResolveReturnHopsDropped(st, g) ==
    IF is_position_valid(st.current, g.rows, g.cols)
       /\ get_cell_content(g.cells, st.current) = WALL
    THEN PortalError(st, [Msg("TeleportedIntoWall") EXCEPT !.pos = st.current])
    ELSE IF st.jumps_made > 0
    THEN Land(st, g, st.current, get_cell_content(g.cells, st.current), <<>>)
    ELSE Land(st, g, st.new_pos, get_cell_content(g.cells, st.new_pos), <<>>)

\* lines 140-146, then validate_moves lines 349-368
\* the chain's last cell accepted without the wall check
ResolveReturnWallUnchecked(st, g) ==
    IF st.jumps_made > 0
    THEN Land(st, g, st.current, get_cell_content(g.cells, st.current), st.teleport_trace)
    ELSE Land(st, g, st.new_pos, get_cell_content(g.cells, st.new_pos), <<>>)

\* the effects of the portal cell stepped on applied at the final position
ResolveReturnEffectsOfPortalCell(st, g) ==
    IF is_position_valid(st.current, g.rows, g.cols)
       /\ get_cell_content(g.cells, st.current) = WALL
    THEN PortalError(st, [Msg("TeleportedIntoWall") EXCEPT !.pos = st.current])
    ELSE IF st.jumps_made > 0
    THEN Land(st, g, st.current, get_cell_content(g.cells, st.new_pos), st.teleport_trace)
    ELSE Land(st, g, st.new_pos, get_cell_content(g.cells, st.new_pos), <<>>)

ResolveReturn(st, g) ==
    IF is_position_valid(st.current, g.rows, g.cols)
       /\ get_cell_content(g.cells, st.current) = WALL
    THEN PortalError(st, [Msg("TeleportedIntoWall") EXCEPT !.pos = st.current])
    ELSE IF st.jumps_made > 0
    THEN Land(st, g, st.current, get_cell_content(g.cells, st.current), st.teleport_trace)
    ELSE Land(st, g, st.new_pos, get_cell_content(g.cells, st.new_pos), <<>>)

\* jump limits a slip in the comparison of line 118 would give
JumpLimitOffByOne(jumps_made) == jumps_made > max_jumps
JumpLimitNever(jumps_made) == FALSE

\* line 118
JumpLimitReached(jumps_made) == jumps_made >= max_jumps

\* line 129 left out
VisitForgotten(visited_labels, cell) == visited_labels

\* line 129: visited_labels.add(cell)
Visit(visited_labels, cell) == visited_labels \cup {cell}

\* the loop check made before the jump cap
ResolveIterLoopFirst(st0, g) ==
    LET st == [st0 EXCEPT !.iters = st0.iters + 1]
        portals == PortalsOf(g)
    IN  IF ~is_position_valid(st.current, g.rows, g.cols)
        THEN PortalError(st, [Msg("TeleportedOutOfBounds") EXCEPT !.pos = st.current])
        ELSE LET cell == get_cell_content(g.cells, st.current)
             IN  IF ~(IsStr(cell) /\ StartsWithP(cell))
                 THEN ResolveReturn(st, g)
                 ELSE IF cell \in st.visited_labels
                 THEN PortalError(st, [Msg("PortalLoop") EXCEPT !.label = cell])
                 ELSE IF JumpLimitReached(st.jumps_made)
                 THEN PortalError(st, [Msg("JumpLimit") EXCEPT !.n = max_jumps])
                 ELSE IF ~InPortals(portals, cell)
                 THEN PortalError(st, [Msg("PortalNotFound") EXCEPT !.label = cell])
                 ELSE LET target == PortalTarget(portals, cell)
                      IN  IF ~is_position_valid(target, g.rows, g.cols)
                          THEN PortalError(st, [Msg("PortalTargetOutOfBounds") EXCEPT
                                                   !.label = cell, !.pos = target])
                          ELSE {[st EXCEPT !.visited_labels = Visit(st.visited_labels, cell),
                                           !.current = Pos(target.r, target.c),
                                           !.teleport_trace = Append(st.teleport_trace,
                                                                     Pos(target.r, target.c)),
                                           !.jumps_made = st.jumps_made + 1]}

ResolveIter(st0, g) ==
    LET st == [st0 EXCEPT !.iters = st0.iters + 1]
        portals == PortalsOf(g)
    IN  IF ~is_position_valid(st.current, g.rows, g.cols)
        THEN PortalError(st, [Msg("TeleportedOutOfBounds") EXCEPT !.pos = st.current])
        ELSE LET cell == get_cell_content(g.cells, st.current)
             IN  IF ~(IsStr(cell) /\ StartsWithP(cell))
                 THEN ResolveReturn(st, g)
                 ELSE IF JumpLimitReached(st.jumps_made)
                 THEN PortalError(st, [Msg("JumpLimit") EXCEPT !.n = max_jumps])
                 ELSE IF cell \in st.visited_labels
                 THEN PortalError(st, [Msg("PortalLoop") EXCEPT !.label = cell])
                 ELSE IF ~InPortals(portals, cell)
                 THEN PortalError(st, [Msg("PortalNotFound") EXCEPT !.label = cell])
                 ELSE LET target == PortalTarget(portals, cell)
                      IN  IF ~is_position_valid(target, g.rows, g.cols)
                          THEN PortalError(st, [Msg("PortalTargetOutOfBounds") EXCEPT
                                                   !.label = cell, !.pos = target])
                          ELSE {[st EXCEPT !.visited_labels = Visit(st.visited_labels, cell),
                                           !.current = Pos(target.r, target.c),
                                           !.teleport_trace = Append(st.teleport_trace,
                                                                     Pos(target.r, target.c)),
                                           !.jumps_made = st.jumps_made + 1]}

(* ------------------------------------------------------------------ *)
(* validate_moves, lines 298-348: one iteration of the move loop, up   *)
(* to the call of resolve_portals when the move steps on a portal      *)
(* ------------------------------------------------------------------ *)
\* the step limit tested against the length of the submitted list
MoveIterLimitOnLength(st0, g, mvs) ==
    LET move == Normalize(mvs[st0.i + 1])
        st1 == [st0 EXCEPT !.steps = st0.steps + 1]
    IN  IF Len(mvs) > max_steps(g)
        THEN Returned(st1, FALSE, [Msg("StepLimitExceeded") EXCEPT !.n = max_steps(g)])
        ELSE LET am == apply_move(st0.pos, move)
                 new_pos == am.pos
                 st == [st1 EXCEPT !.new_pos = IF am.ok THEN new_pos ELSE st1.new_pos]
             IN  IF ~am.ok
                 THEN Returned(st, FALSE, [Msg("InvalidMove") EXCEPT
                                  !.prefix = "Move", !.index = st.i + 1, !.move = move])
                 ELSE IF ~is_position_valid(new_pos, g.rows, g.cols)
                 THEN Returned(st, FALSE, [Msg("OutOfBounds") EXCEPT
                                  !.index = st.i + 1, !.move = move])
                 ELSE LET cell == get_cell_content(g.cells, new_pos)
                      IN  IF cell = WALL
                          THEN Returned(st, FALSE, [Msg("HitsWall") EXCEPT
                                  !.index = st.i + 1, !.move = move, !.pos = new_pos])
                          ELSE IF IsStr(cell) /\ StartsWithP(cell)
                          THEN {[st EXCEPT !.pc = "resolve", !.current = new_pos, !.jumps_made = 0,
                                           !.visited_labels = {}, !.teleport_trace = <<>>,
                                           !.iters = 0]}
                          ELSE Land(st, g, new_pos, cell, <<>>)

\* the position updated before the wall is noticed
MoveIterStepsIntoWall(st0, g, mvs) ==
    LET move == Normalize(mvs[st0.i + 1])
        st1 == [st0 EXCEPT !.steps = st0.steps + 1]
    IN  IF st1.steps > max_steps(g)
        THEN Returned(st1, FALSE, [Msg("StepLimitExceeded") EXCEPT !.n = max_steps(g)])
        ELSE LET am == apply_move(st0.pos, move)
                 new_pos == am.pos
                 st == [st1 EXCEPT !.new_pos = IF am.ok THEN new_pos ELSE st1.new_pos]
             IN  IF ~am.ok
                 THEN Returned(st, FALSE, [Msg("InvalidMove") EXCEPT
                                  !.prefix = "Move", !.index = st.i + 1, !.move = move])
                 ELSE IF ~is_position_valid(new_pos, g.rows, g.cols)
                 THEN Returned(st, FALSE, [Msg("OutOfBounds") EXCEPT
                                  !.index = st.i + 1, !.move = move])
                 ELSE LET cell == get_cell_content(g.cells, new_pos)
                      IN  IF cell = WALL
                          THEN Returned([st EXCEPT !.pos = new_pos,
                                                   !.trace = Append(st.trace, new_pos)],
                                        FALSE, [Msg("HitsWall") EXCEPT
                                  !.index = st.i + 1, !.move = move, !.pos = new_pos])
                          ELSE IF IsStr(cell) /\ StartsWithP(cell)
                          THEN {[st EXCEPT !.pc = "resolve", !.current = new_pos, !.jumps_made = 0,
                                           !.visited_labels = {}, !.teleport_trace = <<>>,
                                           !.iters = 0]}
                          ELSE Land(st, g, new_pos, cell, <<>>)

\* a portal cell stepped on like an empty cell, its chain not followed
MoveIterPortalUnresolved(st0, g, mvs) ==
    LET move == Normalize(mvs[st0.i + 1])
        st1 == [st0 EXCEPT !.steps = st0.steps + 1]
    IN  IF st1.steps > max_steps(g)
        THEN Returned(st1, FALSE, [Msg("StepLimitExceeded") EXCEPT !.n = max_steps(g)])
        ELSE LET am == apply_move(st0.pos, move)
                 new_pos == am.pos
                 st == [st1 EXCEPT !.new_pos = IF am.ok THEN new_pos ELSE st1.new_pos]
             IN  IF ~am.ok
                 THEN Returned(st, FALSE, [Msg("InvalidMove") EXCEPT
                                  !.prefix = "Move", !.index = st.i + 1, !.move = move])
                 ELSE IF ~is_position_valid(new_pos, g.rows, g.cols)
                 THEN Returned(st, FALSE, [Msg("OutOfBounds") EXCEPT
                                  !.index = st.i + 1, !.move = move])
                 ELSE LET cell == get_cell_content(g.cells, new_pos)
                      IN  IF cell = WALL
                          THEN Returned(st, FALSE, [Msg("HitsWall") EXCEPT
                                  !.index = st.i + 1, !.move = move, !.pos = new_pos])
                          ELSE IF IsStr(cell) /\ StartsWithP(cell)
                          THEN Land(st, g, new_pos, cell, <<>>)
                          ELSE Land(st, g, new_pos, cell, <<>>)

MoveIter(st0, g, mvs) ==
    LET move == Normalize(mvs[st0.i + 1])
        st1 == [st0 EXCEPT !.steps = st0.steps + 1]
    IN  IF st1.steps > max_steps(g)
        THEN Returned(st1, FALSE, [Msg("StepLimitExceeded") EXCEPT !.n = max_steps(g)])
        ELSE LET am == apply_move(st0.pos, move)
                 new_pos == am.pos
                 st == [st1 EXCEPT !.new_pos = IF am.ok THEN new_pos ELSE st1.new_pos]
             IN  IF ~am.ok
                 THEN Returned(st, FALSE, [Msg("InvalidMove") EXCEPT
                                  !.prefix = "Move", !.index = st.i + 1, !.move = move])
                 ELSE IF ~is_position_valid(new_pos, g.rows, g.cols)
                 THEN Returned(st, FALSE, [Msg("OutOfBounds") EXCEPT
                                  !.index = st.i + 1, !.move = move])
                 ELSE LET cell == get_cell_content(g.cells, new_pos)
                      IN  IF cell = WALL
                          THEN Returned(st, FALSE, [Msg("HitsWall") EXCEPT
                                  !.index = st.i + 1, !.move = move, !.pos = new_pos])
                          ELSE IF IsStr(cell) /\ StartsWithP(cell)
                          THEN {[st EXCEPT !.pc = "resolve", !.current = new_pos, !.jumps_made = 0,
                                           !.visited_labels = {}, !.teleport_trace = <<>>,
                                           !.iters = 0]}
                          ELSE Land(st, g, new_pos, cell, <<>>)

(* ------------------------------------------------------------------ *)
(* validate_moves, lines 257-295: validation, the locals, the          *)
(* already-at-goal exit                                                *)
(* ------------------------------------------------------------------ *)
\* the trace not pre-populated with the start position
EnterEmptyTrace(g) ==
    LET err == validate_puzzle_grid(g)
        st == [Idle EXCEPT !.pos = g.start, !.keys_collected = {},
                           !.trace = <<>>, !.steps = 0]
    IN  IF err # OK
        THEN Raised(Idle, err)
        ELSE IF st.pos = g.goal
                /\ ~(collect_all_keys(g) /\ Cardinality(st.keys_collected) < total_keys(g))
        THEN Returned(st, TRUE, Msg("AlreadyAtGoal"))
        ELSE {[st EXCEPT !.pc = "loop"]}

Enter(g) ==
    LET err == validate_puzzle_grid(g)
        st == [Idle EXCEPT !.pos = g.start, !.keys_collected = {},
                           !.trace = <<g.start>>, !.steps = 0]
    IN  IF err # OK
        THEN Raised(Idle, err)
        ELSE IF st.pos = g.goal
                /\ ~(collect_all_keys(g) /\ Cardinality(st.keys_collected) < total_keys(g))
        THEN Returned(st, TRUE, Msg("AlreadyAtGoal"))
        ELSE {[st EXCEPT !.pc = "loop"]}

Finished(c) == calls[c].pc \in {"done", "raised"}

\* a call acts once the calls before it have ended
Turn(c) == \A d \in CallIds : d < c => Finished(d)

Step(c, next) ==
    /\ calls' \in {[calls EXCEPT ![c] = s] : s \in next}
    /\ UNCHANGED <<grid_data, moves>>

\* Begin with the step counter kept at module level, not reset by a call
BeginSharedSteps(c) ==
    /\ calls[c].pc = "idle"
    /\ Step(c, {[s EXCEPT !.steps = IF c = 1 THEN 0 ELSE calls[1].steps] :
                   s \in Enter(grid_data)})

Begin(c) ==
    /\ calls[c].pc = "idle"
    /\ Step(c, Enter(grid_data))

Move(c) ==
    /\ calls[c].pc = "loop"
    /\ calls[c].i < Len(moves)
    /\ Step(c, MoveIter(calls[c], grid_data, moves))

Resolve(c) ==
    /\ calls[c].pc = "resolve"
    /\ Step(c, ResolveIter(calls[c], grid_data))

\* the exhaustion result reporting the start as the final position
ExhaustAtStart(c) ==
    /\ calls[c].pc = "loop"
    /\ calls[c].i = Len(moves)
    /\ Step(c, Returned([calls[c] EXCEPT !.pos = grid_data.start], FALSE, Msg("MovesExhausted")))

\* lines 421-429: the loop ran out of moves
Exhaust(c) ==
    /\ calls[c].pc = "loop"
    /\ calls[c].i = Len(moves)
    /\ Step(c, Returned(calls[c], FALSE, Msg("MovesExhausted")))

(* ------------------------------------------------------------------ *)
(* validate_moves as a function of its arguments: the results a call   *)
(* on (g, mvs) can end with, by running the steps above to the end     *)
(* ------------------------------------------------------------------ *)
\* the frames after the next step of the code at the position of frame st
StepOf(st, g, mvs) ==
    CASE st.pc = "idle" -> Enter(g)
      [] st.pc = "loop" /\ st.i < Len(mvs) -> MoveIter(st, g, mvs)
      [] st.pc = "loop" /\ st.i >= Len(mvs) -> Returned(st, FALSE, Msg("MovesExhausted"))
      [] st.pc = "resolve" -> ResolveIter(st, g)
      [] OTHER -> {}

RECURSIVE RunFrom(_, _, _)
RunFrom(st, g, mvs) ==
    IF st.pc \in {"done", "raised"} THEN {st.result}
    ELSE UNION {RunFrom(s, g, mvs) : s \in StepOf(st, g, mvs)}

validate_moves(g, mvs) == RunFrom(Idle, g, mvs)

(* ------------------------------------------------------------------ *)
(* Inputs: move tokens and move lists                                  *)
(* ------------------------------------------------------------------ *)
right_padded == <<" ", "r", "i", "g", "h", "t">>
Down_newline == <<"D", "o", "w", "n", "\n">>
JUMP == <<"J", "U", "M", "P">>

Tokens == {UP, DOWN, LEFT, RIGHT, right_padded, Down_newline, JUMP}

MoveLists(n) == UNION {[1..k -> Tokens] : k \in 0..n}

\* the move lists tried on the one-row chain grids
ChainMoves == UNION {[1..k -> {LEFT, RIGHT, right_padded}] : k \in 0..MaxChainMoves}

(* ------------------------------------------------------------------ *)
(* Inputs: grids                                                       *)
(* ------------------------------------------------------------------ *)
\* backend/scripts/seed_puzzles.py, "Easy Start"
EasyStart ==
    Grid(AllFields, 4, 4, Pos(0, 0), Pos(3, 3),
         << <<START, EMPTY, EMPTY, EMPTY>>,
            <<EMPTY, WALL, EMPTY, EMPTY>>,
            <<EMPTY, WALL, EMPTY, EMPTY>>,
            <<EMPTY, EMPTY, EMPTY, GOAL>> >>,
         {}, Rules({"doors_require_keys", "max_steps", "collect_all_keys"}, 50, TRUE, FALSE))

RuleSets ==
    {NoRules,
     Rules({"collect_all_keys"}, 0, FALSE, TRUE),
     Rules({"doors_require_keys"}, 0, FALSE, FALSE),
     Rules({"max_steps", "collect_all_keys"}, 2, FALSE, TRUE),
     Rules({"max_steps", "doors_require_keys", "collect_all_keys"}, 1, TRUE, FALSE)}

\* two keys, two doors
KeyDoorCells ==
    << <<START, KEY, DOOR>>,
       <<DOOR, KEY, GOAL>> >>

PA == <<"P", "A">>
PB == <<"P", "B">>

\* portals next to the start: PA leads onto a key, PB onto the goal
PortalCells ==
    << <<START, PA, WALL>>,
       <<PB, KEY, GOAL>> >>

PlayGrids ==
    {EasyStart}
    \cup {Grid(AllFields, 2, 3, Pos(0, 0), Pos(1, 2), KeyDoorCells, {}, ru) : ru \in RuleSets}
    \cup {Grid(AllFields, 2, 3, Pos(0, 0), Pos(1, 2), PortalCells,
               {[label |-> PA, target |-> Pos(1, 1)], [label |-> PB, target |-> Pos(1, 2)]}, ru) :
            ru \in {NoRules, Rules({"collect_all_keys"}, 0, FALSE, TRUE)}}

\* One row: S, a chain of n portals P1..Pn (Pi leads onto the cell of
\* P(i+1)), one more cell, G.  `end` says where the last portal leads.
Label(k) == <<"P">> \o Str(k)

ChainEnds ==
    {"open", "wall", "key", "door", "goal", "loop", "self", "unmapped", "outside"}

ChainGrid(n, end) ==
    LET last == CASE end = "wall" -> WALL [] end = "key" -> KEY
                  [] end = "door" -> DOOR [] OTHER -> EMPTY
        target == CASE end = "goal" -> Pos(0, n + 2)
                    [] end = "loop" -> Pos(0, 1)
                    [] end = "self" -> Pos(0, n)
                    [] end = "outside" -> Pos(0, n + 3)
                    [] OTHER -> Pos(0, n + 1)
    IN  Grid(AllFields \ {"rules"}, 1, n + 3, Pos(0, 0), Pos(0, n + 2),
             << <<START>> \o [k \in 1..n |-> Label(k)] \o <<last, GOAL>> >>,
             {[label |-> Label(k), target |-> Pos(0, k + 1)] : k \in 1..(n - 1)}
                \cup (IF end = "unmapped" THEN {} ELSE {[label |-> Label(n), target |-> target]}),
             NoRules)

ChainGrids == {ChainGrid(n, end) : n \in 1..MaxChain, end \in ChainEnds}

\* Every one-row grid over four codes, with declared sizes and start/goal
\* columns that may or may not fit
BadCode == <<"X">>
TinyCodes == {START, GOAL, EMPTY, BadCode}

TinyGrids ==
    {Grid(AllFields \ {"portals"}, 1, cols, Pos(0, sc), Pos(0, gc), <<row>>, {}, NoRules) :
        cols \in 2..TinyCols, sc \in 0..TinyCols, gc \in 0..TinyCols,
        row \in UNION {[1..k -> TinyCodes] : k \in 2..TinyCols}}

\* Malformed variants of a 2x2 grid, one for each check of the validation
Base2x2 ==
    Grid(AllFields, 2, 2, Pos(0, 0), Pos(1, 1), << <<START, EMPTY>>, <<EMPTY, GOAL>> >>, {}, NoRules)

OddGrids ==
    {[Base2x2 EXCEPT !.fields = AllFields \ {f}] : f \in AllFields}
    \cup {[Base2x2 EXCEPT !.rows = 0], [Base2x2 EXCEPT !.cols = 0],
          [Base2x2 EXCEPT !.rows = -2], [Base2x2 EXCEPT !.cols = -2],
          [Base2x2 EXCEPT !.rows = 3], [Base2x2 EXCEPT !.rows = 1],
          [Base2x2 EXCEPT !.cells = <<>>],
          [Base2x2 EXCEPT !.cells = << <<START, EMPTY>>, <<GOAL>> >>],
          [Base2x2 EXCEPT !.cells = << <<START, EMPTY, EMPTY>>, <<EMPTY, GOAL>> >>],
          [Base2x2 EXCEPT !.start = Pos(2, 0)], [Base2x2 EXCEPT !.start = Pos(-1, 0)],
          [Base2x2 EXCEPT !.goal = Pos(1, 2)], [Base2x2 EXCEPT !.goal = Pos(1, -1)],
          [Base2x2 EXCEPT !.start = Pos(0, 1)], [Base2x2 EXCEPT !.goal = Pos(1, 0)],
          [Base2x2 EXCEPT !.start = Pos(1, 1), !.goal = Pos(0, 0)],
          [Base2x2 EXCEPT !.start = Pos(1, 1)], [Base2x2 EXCEPT !.goal = Pos(0, 0)]}
    \cup {[Base2x2 EXCEPT !.cells = << <<START, code>>, <<EMPTY, GOAL>> >>] :
            code \in {NonStr, <<>>, <<"p", "1">>, <<"s">>, <<"S", " ">>, <<" ", " ">>,
                      <<"P">>, <<"P", "S">>, <<"P", " ", "x">>, KEY, DOOR, WALL, START, GOAL}}
    \cup {[Base2x2 EXCEPT !.cells = << <<START, NonStr>>, <<BadCode, GOAL>> >>],
          [Base2x2 EXCEPT !.cells = << <<START, BadCode>>, <<NonStr, GOAL>> >>],
          [Base2x2 EXCEPT !.cells = << <<START, BadCode>>, <<EMPTY, GOAL>> >>,
                          !.start = Pos(5, 5)],
          [Base2x2 EXCEPT !.cells = << <<EMPTY, EMPTY>>, <<EMPTY, GOAL>> >>],
          [Base2x2 EXCEPT !.cells = << <<START, EMPTY>>, <<EMPTY, EMPTY>> >>],
          [Base2x2 EXCEPT !.cells = << <<EMPTY, EMPTY>>, <<EMPTY, EMPTY>> >>]}

TinyMoves == {<<>>, <<RIGHT>>}
OddMoves == {<<>>, <<RIGHT>>, <<DOWN, RIGHT>>, <<JUMP>>}

\* P1 leads onto the open cell (2,3); P2 leads onto P3, P3 onto the open cell (1,1)
TeleportGrid ==
    Grid(AllFields, 3, 4, Pos(0, 0), Pos(2, 0),
         << <<START, Label(1), EMPTY, Label(3)>>,
            <<EMPTY, EMPTY, EMPTY, Label(2)>>,
            <<GOAL, EMPTY, EMPTY, EMPTY>> >>,
         {[label |-> Label(1), target |-> Pos(2, 3)],
          [label |-> Label(2), target |-> Pos(0, 3)],
          [label |-> Label(3), target |-> Pos(1, 1)]}, NoRules)

TeleportMoves == UNION {[1..k -> {UP, LEFT, RIGHT}] : k \in 0..MaxChainMoves}

\* two longer attempts on "Easy Start": along the top and right edges to the
\* goal, and down the left edge and beyond
AlongTheEdges == <<RIGHT, RIGHT, RIGHT, DOWN, DOWN, DOWN>>
DownAndOut == <<DOWN, DOWN, DOWN, DOWN>>

Inputs ==
    (PlayGrids \X MoveLists(MaxMoves))
    \cup (ChainGrids \X ChainMoves)
    \cup (TinyGrids \X TinyMoves)
    \cup (OddGrids \X OddMoves)
    \cup ({EasyStart} \X {AlongTheEdges, DownAndOut})
    \cup ({TeleportGrid} \X TeleportMoves)

(* ------------------------------------------------------------------ *)
(* Specification: the calls of validate_moves run one after another    *)
(* ------------------------------------------------------------------ *)
Init ==
    /\ \E in \in Inputs : grid_data = in[1] /\ moves = in[2]
    /\ calls = [c \in CallIds |-> Idle]

Next ==
    \E c \in CallIds :
        /\ Turn(c)
        /\ \/ Begin(c)
           \/ Move(c)
           \/ Resolve(c)
           \/ Exhaust(c)

Spec == Init /\ [][Next]_vars


(* ------------------------------------------------------------------ *)
(* Specification: two simulations over the same grid, each with its    *)
(* own move list, interleaved step by step (concurrent requests)       *)
(* ------------------------------------------------------------------ *)
Reverse(l) == [k \in 1..Len(l) |-> l[Len(l) + 1 - k]]

\* the move list of simulation c: the list given, and the same moves backwards
MovesOf(c) == IF c = 1 THEN moves ELSE Reverse(moves)

\* the step counter kept at module level, shared by the simulations under way
MoveOwnSharedSteps(c) ==
    /\ calls[c].pc = "loop"
    /\ calls[c].i < Len(MovesOf(c))
    /\ LET shared == IF \A d \in CallIds : calls[d].steps <= calls[c].steps
                     THEN calls[c].steps
                     ELSE CHOOSE n \in {calls[d].steps : d \in CallIds} :
                              \A d \in CallIds : calls[d].steps <= n
       IN  Step(c, MoveIter([calls[c] EXCEPT !.steps = shared], grid_data, MovesOf(c)))

MoveOwn(c) ==
    /\ calls[c].pc = "loop"
    /\ calls[c].i < Len(MovesOf(c))
    /\ Step(c, MoveIter(calls[c], grid_data, MovesOf(c)))

ExhaustOwn(c) ==
    /\ calls[c].pc = "loop"
    /\ calls[c].i = Len(MovesOf(c))
    /\ Step(c, Returned(calls[c], FALSE, Msg("MovesExhausted")))

InterleavedInputs ==
    (PlayGrids \X MoveLists(MaxChainMoves))
    \cup ({ChainGrid(n, end) : n \in {1, 2, max_jumps, max_jumps + 1}, end \in ChainEnds} \X ChainMoves)
    \cup ({TeleportGrid} \X TeleportMoves)
    \cup (OddGrids \X OddMoves)

InitInterleaved ==
    /\ \E in \in InterleavedInputs : grid_data = in[1] /\ moves = in[2]
    /\ calls = [c \in CallIds |-> Idle]

NextInterleaved ==
    \E c \in CallIds :
        \/ Begin(c)
        \/ MoveOwn(c)
        \/ Resolve(c)
        \/ ExhaustOwn(c)

SpecInterleaved == InitInterleaved /\ [][NextInterleaved]_vars

(* ------------------------------------------------------------------ *)
(* get_puzzle_statistics, and the specification of its calls           *)
(* ------------------------------------------------------------------ *)
\* a portal recognised only by a code of two characters, such as 'P1'
StatKindTwoCharPortal(cell) ==
    IF cell = WALL THEN "walls"
    ELSE IF cell = KEY THEN "keys"
    ELSE IF cell = DOOR THEN "doors"
    ELSE IF StartsWithP(cell) /\ Len(cell) = 2 THEN "portals"
    ELSE IF cell = EMPTY THEN "empty_cells"
    ELSE "none"

\* lines 464-473: the counter a cell adds to
StatKind(cell) ==
    IF cell = WALL THEN "walls"
    ELSE IF cell = KEY THEN "keys"
    ELSE IF cell = DOOR THEN "doors"
    ELSE IF StartsWithP(cell) THEN "portals"
    ELSE IF cell = EMPTY THEN "empty_cells"
    ELSE "none"

StatCount(cells, kind) ==
    Cardinality({rc \in UNION {{<<r, c>> : c \in 1..Len(cells[r])} : r \in 1..Len(cells)} :
                    StatKind(cells[rc[1]][rc[2]]) = kind})

get_puzzle_statistics(g) ==
    LET err == validate_puzzle_grid(g)
    IN  IF err # OK
        THEN [kind |-> "error", error |-> err]
        ELSE [kind |-> "stats",
              dimensions |-> [rows |-> g.rows, cols |-> g.cols],
              total_cells |-> g.rows * g.cols,
              walls |-> StatCount(g.cells, "walls"),
              keys |-> StatCount(g.cells, "keys"),
              doors |-> StatCount(g.cells, "doors"),
              portals |-> StatCount(g.cells, "portals"),
              empty_cells |-> StatCount(g.cells, "empty_cells"),
              start |-> g.start,
              goal |-> g.goal,
              max_steps |-> RuleOf(g, "max_steps", default_max_steps)]

\* a call of get_puzzle_statistics on the grid: the frame keeps what it returned
Statistics(c) ==
    /\ calls[c].pc = "idle"
    /\ Step(c, {[Idle EXCEPT !.pc = "stats", !.result = get_puzzle_statistics(grid_data)]})

\* the calls are made one after another
NextStatistics ==
    \E c \in CallIds : (\A d \in CallIds : d < c => calls[d].pc = "stats") /\ Statistics(c)

SpecStatistics == Init /\ [][NextStatistics]_vars

(* ------------------------------------------------------------------ *)
(* Specification: calls of the three functions that take the grid      *)
(* description, validate_puzzle_grid, validate_moves and               *)
(* get_puzzle_statistics, made one after another on the same object    *)
(* ------------------------------------------------------------------ *)
\* the position kept in the start of the grid: pos bound to grid_data["start"]
\* itself and updated in place
StoredStartFollowsPos(g, s) ==
    IF s.pc \in {"loop", "done"} /\ s.pos # NoPos THEN [g EXCEPT !.start = s.pos] ELSE g

\* The grid description after a step that leaves the frame s.  No statement
\* of the three functions assigns through grid_data: validate_moves copies
\* start (line 264), pos and the trace entries (270-272, 368), apply_move and
\* resolve_portals build new positions (44-47, 104, 136), and the statistics
\* are counted in a new dict (449-460).
Stored(g, s) == g

CallStep(c, next) ==
    \E s \in next :
        /\ calls' = [calls EXCEPT ![c] = s]
        /\ grid_data' = Stored(grid_data, s)
        /\ UNCHANGED moves

\* validate_puzzle_grid called on its own: True, or the error raised
GridCall(c) ==
    /\ calls[c].pc = "idle"
    /\ LET err == validate_puzzle_grid(grid_data)
       IN  CallStep(c, {[Idle EXCEPT !.pc = "checked",
                                     !.result = [NoResult EXCEPT
                                                    !.kind = IF err = OK THEN "true" ELSE "raised",
                                                    !.success = (err = OK),
                                                    !.message = err]]})

\* one step of a call of validate_moves
MovesCall(c) ==
    /\ StepOf(calls[c], grid_data, moves) # {}
    /\ CallStep(c, StepOf(calls[c], grid_data, moves))

StatisticsCall(c) ==
    /\ calls[c].pc = "idle"
    /\ CallStep(c, {[Idle EXCEPT !.pc = "stats", !.result = get_puzzle_statistics(grid_data)]})

Ended(c) == calls[c].pc \in {"done", "raised", "checked", "stats"}

NextCalls ==
    \E c \in CallIds :
        /\ \A d \in CallIds : d < c => Ended(d)
        /\ \/ GridCall(c)
           \/ MovesCall(c)
           \/ StatisticsCall(c)

SpecCalls == InitInterleaved /\ [][NextCalls]_vars

(* ------------------------------------------------------------------ *)
(* app/api/puzzles.py, submit_attempt: POST /api/puzzles/{id}/attempts *)
(*   Here calls[c] is the frame of request c: its position in the      *)
(*   handler (the awaits are where requests interleave), its own       *)
(*   database session with the rows added and the rows committed, and  *)
(*   the answer.  The puzzles table holds one puzzle, whose grid is    *)
(*   grid_data; the attempts table is what the sessions committed.     *)
(* ------------------------------------------------------------------ *)
StoredPuzzleId == 1
PuzzleIds == {StoredPuzzleId, 2}

NoTime == -1
ClientTimes == {NoTime, 1200}

NoRequest ==
    [pc |-> "idle", puzzle_id |-> 0, moves |-> <<>>, client_time_ms |-> NoTime,
     result |-> NoResult, added |-> <<>>, committed |-> <<>>,
     status_code |-> 0, detail |-> "", response |-> NoResult]

\* raise HTTPException(status_code, detail)
HTTPException(fr, status_code, detail) ==
    [fr EXCEPT !.pc = "answered", !.status_code = status_code, !.detail = detail]

\* lines 76-85
Attempt(user_id, fr, result) ==
    [user_id |-> user_id, puzzle_id |-> fr.puzzle_id, moves |-> fr.moves,
     success |-> result.success, steps_taken |-> result.steps,
     time_ms |-> fr.client_time_ms, keys_collected |-> result.keys_collected,
     trace |-> result.trace]

\* only the attempts that reached the goal recorded
AfterEngineSuccessOnly(fr, user_id, result) ==
    IF result.kind = "raised"
    THEN HTTPException([fr EXCEPT !.result = result], 400, "Invalid moves")
    ELSE [fr EXCEPT !.pc = "commit", !.result = result,
                    !.added = IF result.success
                              THEN Append(fr.added, Attempt(user_id, fr, result))
                              ELSE fr.added]

\* lines 71-87 and 105-111: the engine has returned a result or raised
AfterEngine(fr, user_id, result) ==
    IF result.kind = "raised"
    THEN HTTPException([fr EXCEPT !.result = result], 400, "Invalid moves")
    ELSE [fr EXCEPT !.pc = "commit", !.result = result,
                    !.added = Append(fr.added, Attempt(user_id, fr, result))]

\* lines 56-69: the request arrives and the puzzle is looked up
Lookup(c) ==
    /\ calls[c].pc = "idle"
    /\ \E puzzle_id \in PuzzleIds, t \in ClientTimes :
          LET fr == [NoRequest EXCEPT !.puzzle_id = puzzle_id, !.moves = MovesOf(c),
                                      !.client_time_ms = t]
          IN  Step(c, {IF puzzle_id # StoredPuzzleId
                       THEN HTTPException(fr, 404, "Puzzle not found")
                       ELSE [fr EXCEPT !.pc = "found"]})

\* lines 71-87: validate_moves(puzzle.grid, attempt_data.moves), session.add(attempt)
Engine(c) ==
    /\ calls[c].pc = "found"
    /\ Step(c, {AfterEngine(calls[c], c, r) : r \in validate_moves(grid_data, calls[c].moves)})

\* lines 88-103: commit, refresh, and the response built from the result
Commit(c) ==
    /\ calls[c].pc = "commit"
    /\ Step(c, {[calls[c] EXCEPT !.pc = "answered", !.status_code = 200,
                                 !.committed = calls[c].committed \o calls[c].added,
                                 !.added = <<>>,
                                 !.response = [calls[c].result EXCEPT !.final_position = NoPos]]})

InitSubmit ==
    /\ \E in \in InterleavedInputs : grid_data = in[1] /\ moves = in[2]
    /\ calls = [c \in CallIds |-> NoRequest]

NextSubmit ==
    \E c \in CallIds :
        \/ Lookup(c)
        \/ Engine(c)
        \/ Commit(c)

SpecSubmit == InitSubmit /\ [][NextSubmit]_vars

(* ------------------------------------------------------------------ *)
(* Vocabulary of the properties                                        *)
(* ------------------------------------------------------------------ *)
Range(f) == {f[x] : x \in DOMAIN f}

CellAt(g, p) == g.cells[p.r + 1][p.c + 1]

InGrid(g, p) == p.r \in 0..(g.rows - 1) /\ p.c \in 0..(g.cols - 1)

Positions(g) == {Pos(r, c) : r \in 0..(g.rows - 1), c \in 0..(g.cols - 1)}

\* The grid description is well formed, stated without the validator
WellFormed(g) ==
    /\ \A k \in 1..Len(required_fields) : required_fields[k] \in g.fields
    /\ g.rows > 0 /\ g.cols > 0
    /\ Len(g.cells) = g.rows
    /\ \A r \in 1..Len(g.cells) : Len(g.cells[r]) = g.cols
    /\ \A p \in Positions(g) :
          CellAt(g, p) \in {<<" ">>, <<"S">>, <<"G">>, <<"W">>, <<"K">>, <<"D">>}
          \/ (CellAt(g, p) # NonStr /\ Len(CellAt(g, p)) >= 1 /\ Head(CellAt(g, p)) = "P")
    /\ InGrid(g, g.start) /\ InGrid(g, g.goal)
    /\ CellAt(g, g.start) = <<"S">> /\ CellAt(g, g.goal) = <<"G">>
    /\ \A p \in Positions(g) : CellAt(g, p) = <<"S">> => p = g.start
    /\ \A p \in Positions(g) : CellAt(g, p) = <<"G">> => p = g.goal

Res(c) == calls[c].result

Failure(c, tag) ==
    calls[c].pc = "done" /\ Res(c).kind = "returned" /\ ~Res(c).success /\ Res(c).message.tag = tag

\* the rules as the grid description gives them
RuleGiven(g, key) == "rules" \in g.fields /\ key \in g.rules.given
DoorsLocked(g) == RuleGiven(g, "doors_require_keys") => g.rules.doors_require_keys
AllKeysNeeded(g) == RuleGiven(g, "collect_all_keys") /\ g.rules.collect_all_keys

KeyCells(g) == {p \in Positions(g) : CellAt(g, p) = <<"K">>}

\* this step lands call c on a cell: the trace grows exactly then
Lands(c) == calls[c].pc \in {"loop", "resolve"} /\ Len(calls'[c].trace) > Len(calls[c].trace)

IsPortal(g, p) == InGrid(g, p) /\ Len(CellAt(g, p)) >= 1 /\ Head(CellAt(g, p)) = "P"

Mapped(g, p) ==
    /\ IsPortal(g, p)
    /\ "portals" \in g.fields
    /\ \E e \in g.portals : e.label = CellAt(g, p) /\ InGrid(g, e.target)

\* the positions p, hop(p), ..., after h hops of the portal mapping; <<>>
\* when a hop is not possible (no portal, unmapped label, target outside)
RECURSIVE Follow(_, _, _)
Follow(g, p, h) ==
    IF h = 0 THEN <<p>>
    ELSE LET q == Follow(g, p, h - 1)
         IN  IF q = <<>> \/ ~Mapped(g, q[Len(q)]) THEN <<>>
             ELSE Append(q, (CHOOSE e \in g.portals : e.label = CellAt(g, q[Len(q)])).target)

\* h hops are possible from p and the h labels followed are distinct
Hops(g, p, h) ==
    LET q == Follow(g, p, h)
    IN  /\ q # <<>>
        /\ \A a, b \in 1..h : a # b => CellAt(g, q[a]) # CellAt(g, q[b])

After(g, p, h) == Follow(g, p, h)[h + 1]

\* after h hops the chain stands on a portal whose label it already followed
Revisits(g, p, h) ==
    /\ h >= 1 /\ Hops(g, p, h)
    /\ IsPortal(g, After(g, p, h))
    /\ \E a \in 1..h : CellAt(g, Follow(g, p, h)[a]) = CellAt(g, After(g, p, h))

\* call c has just left resolve_portals with an error
PortalFailed(c) ==
    calls[c].pc = "done" /\ Res(c).kind = "returned" /\ Res(c).message.prefix = "Portal error"

(* ------------------------------------------------------------------ *)
(* C1  Determinism.  Two calls of validate_moves on the same grid and  *)
(* the same move list end alike: both raise the same error, or both    *)
(* return the same success, message, steps, set of keys_collected,     *)
(* trace and final_position.                                           *)
(* ------------------------------------------------------------------ *)
SameOutcome(a, b) ==
    /\ a.kind = b.kind
    /\ a.success = b.success
    /\ a.message = b.message
    /\ a.steps = b.steps
    /\ Range(a.keys_collected) = Range(b.keys_collected)
    /\ a.trace = b.trace
    /\ a.final_position = b.final_position

C1_Determinism ==
    \A c, d \in CallIds : Finished(c) /\ Finished(d) => SameOutcome(Res(c), Res(d))

\* both calls returned, after several moves, the same two keys in different list orders
C1_Witness ==
    /\ Finished(1) /\ Finished(2)
    /\ Res(1).kind = "returned" /\ Res(1).steps >= 2
    /\ Len(Res(1).keys_collected) = 2
    /\ Res(1).keys_collected # Res(2).keys_collected

(* ------------------------------------------------------------------ *)
(* C2  validate_puzzle_grid succeeds if and only if the description is *)
(* well formed: positive sizes, exactly rows rows of cols recognised   *)
(* codes, start and goal inside the grid on the 'S' and the 'G' cell,  *)
(* and no other 'S' or 'G'.                                            *)
(* ------------------------------------------------------------------ *)
C2_ValidateIffWellFormed ==
    (validate_puzzle_grid(grid_data) = OK) <=> WellFormed(grid_data)

\* a call was rejected by the last check alone: a second 'G' beside a good start and goal
C2_Witness ==
    /\ calls[1].pc = "raised"
    /\ Res(1).message.tag = "GoalCount" /\ Res(1).message.n = 2
    /\ ~WellFormed(grid_data)

(* ------------------------------------------------------------------ *)
(* C3  Step accounting.  A returned result has steps = the 1-based     *)
(* index of the move that ended the attempt, and steps = len(moves)    *)
(* when the moves ran out.                                             *)
(* ------------------------------------------------------------------ *)
C3_StepAccounting ==
    \A c \in CallIds :
        /\ calls[c].pc = "loop" => calls[c].steps = calls[c].i
        /\ calls[c].pc = "done" =>
              Res(c).steps = CASE Res(c).message.tag = "MovesExhausted" -> Len(moves)
                               [] Res(c).message.tag = "AlreadyAtGoal" -> 0
                               [] OTHER -> calls[c].i + 1

\* a failure decided at the third move, and it was not exhaustion
C3_Witness ==
    \E c \in CallIds :
        /\ calls[c].pc = "done" /\ ~Res(c).success
        /\ Res(c).message.tag = "OutOfBounds" /\ Res(c).message.index = 3
        /\ Res(c).steps = 3

(* ------------------------------------------------------------------ *)
(* C4  On a grid that passes validation validate_moves never raises:   *)
(* every gameplay failure is a returned result with success = false,   *)
(* and only the two goal messages come with success = true.            *)
(* ------------------------------------------------------------------ *)
GameplayFailures ==
    {"HitsWall", "OutOfBounds", "DoorRequiresKey", "StepLimitExceeded", "JumpLimit",
     "PortalLoop", "PortalNotFound", "PortalTargetOutOfBounds", "TeleportedIntoWall",
     "TeleportedOutOfBounds", "MustCollectAllKeys", "InvalidMove", "MovesExhausted"}

C4_FailuresAreResults ==
    WellFormed(grid_data) =>
        \A c \in CallIds :
            /\ calls[c].pc # "raised"
            /\ Res(c).kind = (IF calls[c].pc = "done" THEN "returned" ELSE "none")
            /\ calls[c].pc = "done" =>
                  /\ Res(c).message.tag \in GameplayFailures \cup {"GoalReached", "AlreadyAtGoal"}
                  /\ Res(c).success <=> Res(c).message.tag \notin GameplayFailures

\* a portal whose label the mapping lacks ended the attempt with a returned failure
C4_Witness ==
    \E c \in CallIds : WellFormed(grid_data) /\ Failure(c, "PortalNotFound")

(* ------------------------------------------------------------------ *)
(* C5  On a grid that fails validation validate_moves raises the       *)
(* structural error whatever the moves are, the empty list included,   *)
(* and returns no result.                                              *)
(* ------------------------------------------------------------------ *)
C5_InvalidGridRaises ==
    ~WellFormed(grid_data) =>
        \A c \in CallIds :
            calls[c].pc # "idle" =>
                /\ calls[c].pc = "raised"
                /\ Res(c).kind = "raised"
                /\ Res(c).message =
                      [validate_puzzle_grid(grid_data) EXCEPT !.prefix = "Puzzle validation failed"]
                /\ Res(c).trace = <<>> /\ Res(c).keys_collected = <<>>

\* raised on the empty move list
C5_Witness ==
    /\ ~WellFormed(grid_data) /\ moves = <<>>
    /\ calls[1].pc = "raised" /\ Res(1).message.tag = "UnknownCell"

(* ------------------------------------------------------------------ *)
(* C6  Door rule.  A move that lands on a door leaves the key set as   *)
(* it was; with doors_require_keys (the default) and no key collected  *)
(* it ends the attempt with the locked-door failure, and otherwise     *)
(* (a key collected earlier, or doors_require_keys false) the door is  *)
(* passed and the attempt goes on.                                     *)
(* ------------------------------------------------------------------ *)
C6_DoorRule ==
    [][\A c \in CallIds :
          (Lands(c) /\ CellAt(grid_data, calls'[c].pos) = <<"D">>) =>
              /\ calls'[c].keys_collected = calls[c].keys_collected
              /\ IF DoorsLocked(grid_data) /\ calls[c].keys_collected = {}
                 THEN /\ calls'[c].pc = "done"
                      /\ ~calls'[c].result.success
                      /\ calls'[c].result.message.tag = "DoorRequiresKey"
                      /\ calls'[c].result.message.pos = calls'[c].pos
                 ELSE /\ calls'[c].pc = "loop"
                      /\ calls'[c].i = calls[c].i + 1]_vars

\* a locked door was passed with a key in hand
C6_Witness ==
    \E c \in CallIds :
        /\ DoorsLocked(grid_data)
        /\ calls[c].pc = "loop" /\ calls[c].i >= 1
        /\ CellAt(grid_data, calls[c].pos) = <<"D">>
        /\ calls[c].keys_collected # {}

(* ------------------------------------------------------------------ *)
(* C7  All-keys goal rule.  With collect_all_keys, an attempt that     *)
(* reaches the goal with fewer keys than the grid has 'K' cells fails  *)
(* with a message citing the total and the collected count, and one    *)
(* that landed on every 'K' cell before the goal succeeds.             *)
(* ------------------------------------------------------------------ *)
C7_AllKeysGoalRule ==
    AllKeysNeeded(grid_data) =>
        \A c \in CallIds :
            (calls[c].pc = "done" /\ Res(c).final_position = grid_data.goal) =>
                /\ Len(Res(c).keys_collected) < Cardinality(KeyCells(grid_data)) =>
                      /\ ~Res(c).success
                      /\ Res(c).message.tag = "MustCollectAllKeys"
                      /\ Res(c).message.n = Cardinality(KeyCells(grid_data))
                      /\ Res(c).message.m = Len(Res(c).keys_collected)
                /\ KeyCells(grid_data) \subseteq Range(Res(c).trace) => Res(c).success

\* the goal reached after both keys of a two-key grid
C7_Witness ==
    \E c \in CallIds :
        /\ AllKeysNeeded(grid_data) /\ Cardinality(KeyCells(grid_data)) = 2
        /\ calls[c].pc = "done" /\ Res(c).success
        /\ KeyCells(grid_data) \subseteq Range(Res(c).trace)

(* ------------------------------------------------------------------ *)
(* C8  Portal jump cap.  When resolve_portals is called on a portal    *)
(* cell from which 10 hops over distinct labels are possible and the   *)
(* cell after the 10th hop is again a portal, it fails with the        *)
(* jump-limit error; when at most 10 such hops end on a cell that is   *)
(* neither a portal nor a wall, it succeeds and the move lands there.  *)
(* ------------------------------------------------------------------ *)
C8_JumpCap ==
    [][\A c \in CallIds :
          (calls[c].pc = "resolve" /\ calls'[c].pc # "resolve") =>
              LET g == grid_data
                  p == calls[c].new_pos
              IN  /\ (Hops(g, p, 10) /\ IsPortal(g, After(g, p, 10))) =>
                        /\ calls'[c].pc = "done"
                        /\ ~calls'[c].result.success
                        /\ calls'[c].result.message.prefix = "Portal error"
                        /\ calls'[c].result.message.tag = "JumpLimit"
                  /\ \A h \in 1..10 :
                        (/\ Hops(g, p, h)
                         /\ ~IsPortal(g, After(g, p, h))
                         /\ CellAt(g, After(g, p, h)) # <<"W">>) =>
                            /\ calls'[c].result.message.prefix # "Portal error"
                            /\ calls'[c].pos = After(g, p, h)
                            /\ calls'[c].jumps_made = h]_vars

\* a chain of exactly 10 hops was resolved and the attempt went on
C8_Witness ==
    \E c \in CallIds :
        /\ calls[c].pc = "loop" /\ calls[c].jumps_made = 10
        /\ calls[c].pos = calls[c].teleport_trace[10]

(* ------------------------------------------------------------------ *)
(* C9  Portal loop detection.                                          *)
(* As claimed: a chain that comes back to a label it already followed  *)
(* fails with the loop error naming that label.                        *)
(* ------------------------------------------------------------------ *)
C9_AnyRevisitIsLoopError ==
    \A c \in CallIds :
        PortalFailed(c) =>
            \A h \in 1..(max_jumps + 1) :
                Revisits(grid_data, calls[c].new_pos, h) =>
                    /\ Res(c).message.tag = "PortalLoop"
                    /\ Res(c).message.label = CellAt(grid_data, After(grid_data, calls[c].new_pos, h))

(* C9, amended: a chain that comes back to a label it already followed *)
(* after fewer than 10 hops fails with the loop error naming that      *)
(* label; when it comes back after exactly 10 hops the jump-limit      *)
(* error is raised, the cap being tested before the loop.              *)
C9_RevisitBelowCapIsLoopError ==
    [][\A c \in CallIds :
          (calls[c].pc = "resolve" /\ calls'[c].pc # "resolve") =>
              \A h \in 1..10 :
                  Revisits(grid_data, calls[c].new_pos, h) =>
                      /\ calls'[c].pc = "done"
                      /\ ~calls'[c].result.success
                      /\ calls'[c].result.message.prefix = "Portal error"
                      /\ IF h < 10
                         THEN /\ calls'[c].result.message.tag = "PortalLoop"
                              /\ calls'[c].result.message.label =
                                    CellAt(grid_data, After(grid_data, calls[c].new_pos, h))
                         ELSE calls'[c].result.message.tag = "JumpLimit"]_vars

\* a chain of 9 portals that leads back to its first one: the loop error names it
C9_Witness ==
    \E c \in CallIds :
        /\ Failure(c, "PortalLoop")
        /\ Revisits(grid_data, calls[c].new_pos, 9)
        /\ Res(c).message.label = CellAt(grid_data, calls[c].new_pos)

(* ------------------------------------------------------------------ *)
(* C10  Termination.  Every call of validate_moves ends (with a result *)
(* or a raise), and no call of resolve_portals runs its loop more than *)
(* 11 times, cyclic and self-targeting portals included.               *)
(* Stated by a variant: while a call has not ended its next step is    *)
(* defined, and every step raises a measure that is bounded above      *)
(* (moves consumed, then loop iterations of the portal resolution      *)
(* under way), so no call runs for ever.                               *)
(* ------------------------------------------------------------------ *)
\* the code at the position of call c yields a next frame
CanStep(c) ==
    CASE calls[c].pc = "idle" -> Enter(grid_data) # {}
      [] calls[c].pc = "loop" /\ calls[c].i < Len(moves) ->
            MoveIter(calls[c], grid_data, moves) # {}
      [] calls[c].pc = "loop" /\ calls[c].i >= Len(moves) ->
            calls[c].i = Len(moves) /\ Returned(calls[c], FALSE, Msg("MovesExhausted")) # {}
      [] calls[c].pc = "resolve" -> ResolveIter(calls[c], grid_data) # {}
      [] OTHER -> FALSE

Measure(c) ==
    CASE calls[c].pc = "idle" -> 0
      [] calls[c].pc = "loop" -> 1 + (11 + 2) * calls[c].i
      [] calls[c].pc = "resolve" -> 2 + (11 + 2) * calls[c].i + calls[c].iters
      [] OTHER -> 1 + (11 + 2) * (Len(moves) + 1)

C10_Termination ==
    /\ [](\A c \in CallIds : /\ calls[c].iters <= 11
                             /\ calls[c].i <= Len(moves)
                             /\ Measure(c) <= 1 + (11 + 2) * (Len(moves) + 1))
    /\ [](\A c \in CallIds : Finished(c) \/ (Turn(c) => CanStep(c)))
    /\ [][\A c \in CallIds : calls'[c] # calls[c] => Measure(c)' > Measure(c)]_vars

\* a resolve_portals call that ended in its 11th iteration
C10_Witness ==
    \E c \in CallIds : Finished(c) /\ calls[c].iters = 11

(* ------------------------------------------------------------------ *)
(* C11  Stop at the first terminal outcome.  When a call ends at move  *)
(* i with a success or with a failure other than exhaustion, a call on *)
(* the first i moves followed by any continuation gives the identical  *)
(* result: the moves after the terminating one change nothing.         *)
(* ------------------------------------------------------------------ *)
\* the 1-based index of the move at which call c ended
EndIndex(c) == IF Res(c).message.tag = "AlreadyAtGoal" THEN 0 ELSE calls[c].i + 1

Continuations ==
    {<<>>} \cup {<<t>> : t \in {UP, RIGHT, right_padded, JUMP}}
           \cup {<<RIGHT, DOWN>>, <<DOWN, DOWN, UP>>}

\* call c has ended and no later call has begun (its result is looked at once)
JustEnded(c) == Finished(c) /\ \A d \in CallIds : d > c => calls[d].pc = "idle"

C11_StopAtFirstTerminal ==
    \A c \in CallIds :
        (JustEnded(c) /\ calls[c].pc = "done" /\ Res(c).message.tag # "MovesExhausted") =>
            \A x \in Continuations :
                \A r \in validate_moves(grid_data, SubSeq(moves, 1, EndIndex(c)) \o x) :
                    SameOutcome(r, Res(c))

\* the goal was reached at the first move of a longer list
C11_Witness ==
    \E c \in CallIds :
        /\ calls[c].pc = "done" /\ Res(c).success
        /\ EndIndex(c) = 1 /\ Len(moves) >= 3

(* ------------------------------------------------------------------ *)
(* C12  Step limit.  The step counter is incremented before the move   *)
(* is examined: a move that takes it above max_steps (the rule, 1000   *)
(* when the rule is absent) ends the attempt with the step-limit       *)
(* failure whatever the token is, without applying it.  So at most     *)
(* max_steps moves are applied, no success has steps > max_steps, and  *)
(* the failure reports steps = max_steps + 1 with the position, keys   *)
(* and trace as they were after move max_steps.                        *)
(* ------------------------------------------------------------------ *)
\* the limit as the grid description gives it
Limit(g) == IF RuleGiven(g, "max_steps") THEN g.rules.max_steps ELSE 1000

\* this step of call c examines the next move of the list
Examines(c) == calls[c].pc = "loop" /\ calls[c].i < Len(moves) /\ calls'[c] # calls[c]

C12_StepLimit ==
    /\ [](\A c \in CallIds :
             /\ calls[c].pc \in {"loop", "resolve", "done"} => calls[c].i <= Limit(grid_data)
             /\ (calls[c].pc = "done" /\ Res(c).success) => Res(c).steps <= Limit(grid_data)
             /\ Failure(c, "StepLimitExceeded") =>
                   /\ Res(c).steps = Limit(grid_data) + 1
                   /\ Res(c).message.n = Limit(grid_data)
                   /\ calls[c].i = Limit(grid_data))
    /\ [][\A c \in CallIds :
             Examines(c) =>
                 IF calls[c].i + 1 > Limit(grid_data)
                 THEN /\ calls'[c].pc = "done"
                      /\ ~calls'[c].result.success
                      /\ calls'[c].result.message.tag = "StepLimitExceeded"
                      /\ calls'[c].result.final_position = calls[c].pos
                      /\ calls'[c].result.trace = calls[c].trace
                      /\ Range(calls'[c].result.keys_collected) = calls[c].keys_collected
                      /\ calls'[c].pos = calls[c].pos /\ calls'[c].i = calls[c].i
                 ELSE calls'[c].result.message.tag # "StepLimitExceeded"]_vars

\* with max_steps = 2 the third move ended the attempt; the two moves before it were applied
C12_Witness ==
    \E c \in CallIds :
        /\ Failure(c, "StepLimitExceeded")
        /\ Limit(grid_data) = 2 /\ Res(c).steps = 3
        /\ Len(Res(c).trace) = 3 /\ Res(c).final_position # grid_data.start

(* ------------------------------------------------------------------ *)
(* C13  Unknown move token.  When the i-th token (1-based), trimmed    *)
(* and upper-cased, is none of UP, DOWN, LEFT, RIGHT and the step      *)
(* limit is not exceeded, the attempt ends with a failure whose        *)
(* message names that token and the index i, with steps = i and the    *)
(* position, keys and trace as before the token; a known token never   *)
(* gives this failure.                                                 *)
(* ------------------------------------------------------------------ *)
LowerLetters ==
    <<"a", "b", "c", "d", "e", "f", "g", "h", "i", "j", "k", "l", "m",
      "n", "o", "p", "q", "r", "s", "t", "u", "v", "w", "x", "y", "z">>
UpperLetters ==
    <<"A", "B", "C", "D", "E", "F", "G", "H", "I", "J", "K", "L", "M",
      "N", "O", "P", "Q", "R", "S", "T", "U", "V", "W", "X", "Y", "Z">>

Capital(ch) ==
    IF \E k \in 1..26 : LowerLetters[k] = ch
    THEN UpperLetters[CHOOSE k \in 1..26 : LowerLetters[k] = ch]
    ELSE ch

Blank(ch) == ch = " " \/ ch = "\t" \/ ch = "\n"

\* the token without the blanks around it, in capitals
TrimUpper(tok) ==
    IF \A k \in 1..Len(tok) : Blank(tok[k]) THEN <<>>
    ELSE LET a == CHOOSE k \in 1..Len(tok) : ~Blank(tok[k]) /\ \A j \in 1..(k - 1) : Blank(tok[j])
             b == CHOOSE k \in 1..Len(tok) : ~Blank(tok[k]) /\ \A j \in (k + 1)..Len(tok) : Blank(tok[j])
         IN  [k \in 1..(b - a + 1) |-> Capital(tok[a + k - 1])]

Directions == {<<"U", "P">>, <<"D", "O", "W", "N">>, <<"L", "E", "F", "T">>, <<"R", "I", "G", "H", "T">>}

C13_UnknownToken ==
    [][\A c \in CallIds :
          (Examines(c) /\ calls[c].i + 1 <= Limit(grid_data)) =>
              LET tok == TrimUpper(moves[calls[c].i + 1])
              IN  IF tok \notin Directions
                  THEN /\ calls'[c].pc = "done"
                       /\ ~calls'[c].result.success
                       /\ calls'[c].result.message.tag = "InvalidMove"
                       /\ calls'[c].result.message.move = tok
                       /\ calls'[c].result.message.index = calls[c].i + 1
                       /\ calls'[c].result.steps = calls[c].i + 1
                       /\ calls'[c].result.final_position = calls[c].pos
                       /\ calls'[c].result.trace = calls[c].trace
                       /\ Range(calls'[c].result.keys_collected) = calls[c].keys_collected
                  ELSE calls'[c].result.message.tag # "InvalidMove"]_vars

\* two moves applied, a key picked up, then the unknown third token ended the attempt
C13_Witness ==
    \E c \in CallIds :
        /\ Failure(c, "InvalidMove")
        /\ Res(c).message.index = 3 /\ Res(c).message.move = <<"J", "U", "M", "P">>
        /\ Len(Res(c).trace) = 3 /\ Len(Res(c).keys_collected) >= 1

(* ------------------------------------------------------------------ *)
(* C14  Token normalisation.  The result does not depend on the letter *)
(* case of the tokens or on the blanks around them: a call on the      *)
(* move list and a call on its trimmed, upper-cased form give          *)
(* identical results.                                                  *)
(* ------------------------------------------------------------------ *)
TrimUpperAll(mvs) == [k \in 1..Len(mvs) |-> TrimUpper(mvs[k])]

C14_Normalisation ==
    \A c \in CallIds :
        JustEnded(c) =>
            \A r \in validate_moves(grid_data, TrimUpperAll(moves)) : SameOutcome(r, Res(c))

\* a padded lower-case token and a mixed-case one with a newline were both applied
C14_Witness ==
    \E c \in CallIds :
        /\ calls[c].pc = "done" /\ Len(moves) >= 2
        /\ moves[1] = <<" ", "r", "i", "g", "h", "t">>
        /\ moves[2] = <<"D", "o", "w", "n", "\n">>
        /\ Len(Res(c).trace) >= 3

(* ------------------------------------------------------------------ *)
(* C15  Exhaustion.  When every move of the list has been applied      *)
(* without a terminal outcome (the empty list on a valid grid          *)
(* included), validate_moves returns the failure "Moves exhausted      *)
(* without reaching goal" with steps = len(moves), the trace all the   *)
(* moves accumulated and the position reached.                         *)
(* ------------------------------------------------------------------ *)
C15_Exhaustion ==
    /\ [][\A c \in CallIds :
             (calls[c].pc = "loop" /\ calls[c].i = Len(moves) /\ calls'[c] # calls[c]) =>
                 /\ calls'[c].pc = "done"
                 /\ ~calls'[c].result.success
                 /\ calls'[c].result.message.tag = "MovesExhausted"
                 /\ calls'[c].result.steps = Len(moves)
                 /\ calls'[c].result.trace = calls[c].trace
                 /\ calls'[c].result.final_position = calls[c].pos
                 /\ Range(calls'[c].result.keys_collected) = calls[c].keys_collected]_vars
    /\ [](\A c \in CallIds :
             /\ Failure(c, "MovesExhausted") =>
                   /\ calls[c].i = Len(moves)
                   /\ Len(Res(c).trace) >= Len(moves) + 1
                   /\ Res(c).final_position = Res(c).trace[Len(Res(c).trace)]
             /\ (calls[c].pc = "done" /\ moves = <<>>) =>
                   /\ Failure(c, "MovesExhausted")
                   /\ Res(c).steps = 0
                   /\ Res(c).trace = <<grid_data.start>>
                   /\ Res(c).final_position = grid_data.start)

\* three moves, two of them through a portal, all applied: the result carries their whole trace
C15_Witness ==
    \E c \in CallIds :
        /\ Failure(c, "MovesExhausted")
        /\ Len(moves) = 3 /\ Res(c).steps = 3
        /\ Len(Res(c).trace) > 5
        /\ Res(c).final_position # grid_data.start

(* ------------------------------------------------------------------ *)
(* C16  Scenario A.  On the 4x4 grid with start (0,0), goal (3,3) and  *)
(* walls at (1,1) and (2,1), the moves RIGHT, RIGHT, RIGHT, DOWN,      *)
(* DOWN, DOWN give success with steps = 6.                             *)
(* ------------------------------------------------------------------ *)
\* the grid of the scenarios: only the start, the goal and the two walls
ScenarioGrid(g) ==
    /\ WellFormed(g)
    /\ g.rows = 4 /\ g.cols = 4
    /\ g.start = Pos(0, 0) /\ g.goal = Pos(3, 3)
    /\ \A p \in Positions(g) :
          CellAt(g, p) = CASE p = Pos(0, 0) -> <<"S">>
                           [] p = Pos(3, 3) -> <<"G">>
                           [] p \in {Pos(1, 1), Pos(2, 1)} -> <<"W">>
                           [] OTHER -> <<" ">>
    /\ Limit(g) >= 6

C16_ScenarioA ==
    (ScenarioGrid(grid_data) /\ moves = <<RIGHT, RIGHT, RIGHT, DOWN, DOWN, DOWN>>) =>
        \A c \in CallIds :
            /\ calls[c].pc # "raised"
            /\ calls[c].pc = "done" =>
                  /\ Res(c).success
                  /\ Res(c).steps = 6
                  /\ Res(c).message.tag = "GoalReached" /\ Res(c).message.n = 6
                  /\ Res(c).final_position = Pos(3, 3)
                  /\ Res(c).trace = <<Pos(0, 0), Pos(0, 1), Pos(0, 2), Pos(0, 3),
                                      Pos(1, 3), Pos(2, 3), Pos(3, 3)>>

\* the six moves were played on the scenario grid and the call returned
C16_Witness ==
    /\ ScenarioGrid(grid_data) /\ Len(moves) = 6 /\ moves[4] = DOWN
    /\ calls[1].pc = "done" /\ Res(1).steps = 6

(* ------------------------------------------------------------------ *)
(* C17  Scenario B.  On the same grid the moves DOWN, DOWN, DOWN, DOWN *)
(* fail at move 4 with the "goes out of bounds" message and steps = 4, *)
(* the first three moves having been applied.                          *)
(* ------------------------------------------------------------------ *)
C17_ScenarioB ==
    (ScenarioGrid(grid_data) /\ moves = <<DOWN, DOWN, DOWN, DOWN>>) =>
        \A c \in CallIds :
            /\ calls[c].pc # "raised"
            /\ calls[c].pc = "done" =>
                  /\ ~Res(c).success
                  /\ Res(c).message.tag = "OutOfBounds"
                  /\ Res(c).message.index = 4 /\ Res(c).message.move = DOWN
                  /\ Res(c).steps = 4
                  /\ Res(c).final_position = Pos(3, 0)
                  /\ Res(c).trace = <<Pos(0, 0), Pos(1, 0), Pos(2, 0), Pos(3, 0)>>

\* the four moves were played on the scenario grid and the call returned at the bottom row
C17_Witness ==
    /\ ScenarioGrid(grid_data) /\ Len(moves) = 4 /\ moves[1] = DOWN
    /\ calls[1].pc = "done" /\ Res(1).steps = 4 /\ Res(1).final_position.r = 3

(* ------------------------------------------------------------------ *)
(* C18  Teleport trace.  When a move lands on a portal cell and the    *)
(* chain resolves in k hops, the running trace grows by the k hop      *)
(* targets in order (the teleport_trace) followed by the resolved      *)
(* final position, which becomes the current position.  For a single   *)
(* portal P1 mapped to the open cell (2,3) the resolution is one hop,  *)
(* teleport_trace has length 1 and the final position is (2,3).        *)
(* ------------------------------------------------------------------ *)
\* this step of call c leaves resolve_portals without an error
Resolved(c) ==
    /\ calls[c].pc = "resolve" /\ calls'[c].pc # "resolve"
    /\ calls'[c].result.message.prefix # "Portal error"

C18_TeleportTrace ==
    [][\A c \in CallIds :
          Resolved(c) =>
              LET g == grid_data
                  p == calls[c].new_pos
                  k == calls'[c].jumps_made
                  q == Follow(g, p, k)
              IN  /\ k >= 1 /\ Hops(g, p, k) /\ ~IsPortal(g, q[k + 1])
                  /\ calls'[c].teleport_trace = SubSeq(q, 2, k + 1)
                  /\ calls'[c].trace = (calls[c].trace \o SubSeq(q, 2, k + 1)) \o <<q[k + 1]>>
                  /\ calls'[c].pos = q[k + 1]
                  /\ calls'[c].pc = "done" =>
                        /\ calls'[c].result.trace = calls'[c].trace
                        /\ calls'[c].result.final_position = q[k + 1]
                  /\ (/\ CellAt(g, p) = <<"P", "1">>
                      /\ \E e \in g.portals : e.label = <<"P", "1">> /\ e.target = Pos(2, 3)
                      /\ InGrid(g, Pos(2, 3)) /\ CellAt(g, Pos(2, 3)) = <<" ">>) =>
                        /\ k = 1
                        /\ Len(calls'[c].teleport_trace) = 1
                        /\ calls'[c].pos = Pos(2, 3)]_vars

\* P1 took the first move to (2,3) in one hop, then P2 and P3 took the second to (1,1) in two
C18_Witness ==
    \E c \in CallIds :
        /\ calls[c].pc = "loop" /\ calls[c].i = 2
        /\ calls[c].trace = <<Pos(0, 0), Pos(2, 3), Pos(2, 3), Pos(0, 3), Pos(1, 1), Pos(1, 1)>>
        /\ calls[c].pos = Pos(1, 1)

(* ------------------------------------------------------------------ *)
(* C19  The trace is the ordered list of every position occupied       *)
(* during the attempt, teleport hops included: each position appears   *)
(* once per occupation, in order of occupation, and the portal cell a  *)
(* move steps onto comes before the positions it teleports to.         *)
(* ------------------------------------------------------------------ *)
Delta(tok) ==
    CASE tok = <<"U", "P">> -> Pos(-1, 0)
      [] tok = <<"D", "O", "W", "N">> -> Pos(1, 0)
      [] tok = <<"L", "E", "F", "T">> -> Pos(0, -1)
      [] OTHER -> Pos(0, 1)

\* the positions occupied on stepping onto p: p, then the targets of the
\* portals followed until a cell that is no portal
ChainFrom(g, p) ==
    IF \E h \in 0..max_jumps : Follow(g, p, h) # <<>> /\ ~IsPortal(g, After(g, p, h))
    THEN Follow(g, p, CHOOSE h \in 0..max_jumps :
                          /\ Follow(g, p, h) # <<>> /\ ~IsPortal(g, After(g, p, h))
                          /\ \A j \in 0..(h - 1) : IsPortal(g, After(g, p, j)))
    ELSE <<p>>

\* the positions occupied, in order, once the first n moves are applied
RECURSIVE Walk(_, _, _)
Walk(g, mvs, n) ==
    IF n = 0 THEN <<g.start>>
    ELSE LET w == Walk(g, mvs, n - 1)
             d == Delta(TrimUpper(mvs[n]))
         IN  w \o ChainFrom(g, Pos(w[Len(w)].r + d.r, w[Len(w)].c + d.c))

C19_TraceIsOccupation ==
    \A c \in CallIds :
        calls[c].pc = "loop" => calls[c].trace = Walk(grid_data, moves, calls[c].i)

(* ------------------------------------------------------------------ *)
(* C20  Keys are idempotent and never consumed.  Across the moves of   *)
(* an attempt the key set only grows; landing again on a key cell      *)
(* already collected leaves it unchanged; and its size is the number   *)
(* of distinct 'K' cells landed on so far.                             *)
(* ------------------------------------------------------------------ *)
\* the 'K' cells call c has landed on (a cell of the trace that holds a key
\* is a landing: the start is 'S' and a hop target left again is a portal)
KeysLandedOn(c) == {p \in KeyCells(grid_data) : p \in Range(calls[c].trace)}

C20_KeysOnlyGrow ==
    /\ [][\A c \in CallIds :
             calls[c].pc \in {"loop", "resolve"} =>
                 /\ calls[c].keys_collected \subseteq calls'[c].keys_collected
                 /\ (/\ Lands(c)
                     /\ CellAt(grid_data, calls'[c].pos) = <<"K">>
                     /\ calls'[c].pos \in Range(calls[c].trace)) =>
                        calls'[c].keys_collected = calls[c].keys_collected]_vars
    /\ [](\A c \in CallIds :
             /\ calls[c].pc \in {"loop", "resolve", "done"} =>
                   Cardinality(calls[c].keys_collected) = Cardinality(KeysLandedOn(c))
             /\ calls[c].pc = "done" =>
                   /\ Range(Res(c).keys_collected) = calls[c].keys_collected
                   /\ Len(Res(c).keys_collected) = Cardinality(KeysLandedOn(c)))

\* the same key cell landed on twice, a second key cell once: two keys held
C20_Witness ==
    \E c \in CallIds :
        /\ calls[c].pc = "loop" /\ calls[c].i = 3
        /\ calls[c].trace[2] = calls[c].trace[4]
        /\ CellAt(grid_data, calls[c].trace[2]) = <<"K">>
        /\ CellAt(grid_data, calls[c].trace[3]) = <<"K">>
        /\ Cardinality(calls[c].keys_collected) = 2

(* ------------------------------------------------------------------ *)
(* C21  Validation is fail-fast and reports the first violation in a   *)
(* fixed order.                                                        *)
(* ------------------------------------------------------------------ *)
\* the kinds of violation, stated on the grid description
Recognised(code) ==
    \/ code \in {<<" ">>, <<"S">>, <<"G">>, <<"W">>, <<"K">>, <<"D">>}
    \/ (code # NonStr /\ Len(code) >= 1 /\ Head(code) = "P")

Rectangular(g) ==
    g.rows > 0 /\ g.cols > 0 /\ Len(g.cells) = g.rows
    /\ \A r \in 1..Len(g.cells) : Len(g.cells[r]) = g.cols

NumberOf(g, code) ==
    Cardinality({p \in Positions(g) : CellAt(g, p) = code})

Violates(g, kind) ==
    CASE kind = "fields" -> \E k \in 1..Len(required_fields) : required_fields[k] \notin g.fields
      [] kind = "dimensions" -> g.rows <= 0 \/ g.cols <= 0
      [] kind = "row count" -> Len(g.cells) # g.rows
      [] kind = "row length" -> \E r \in 1..Len(g.cells) : Len(g.cells[r]) # g.cols
      [] kind = "cell code" ->
            \E r \in 1..Len(g.cells) : \E k \in 1..Len(g.cells[r]) : ~Recognised(g.cells[r][k])
      [] kind = "bounds" -> ~InGrid(g, g.start) \/ ~InGrid(g, g.goal)
      [] kind = "mismatch" ->
            /\ Rectangular(g) /\ InGrid(g, g.start) /\ InGrid(g, g.goal)
            /\ (CellAt(g, g.start) # <<"S">> \/ CellAt(g, g.goal) # <<"G">>)
      [] kind = "cardinality" ->
            Rectangular(g) /\ (NumberOf(g, <<"S">>) # 1 \/ NumberOf(g, <<"G">>) # 1)
      [] OTHER -> FALSE

\* the kind of violation an error message reports
KindOf(tag) ==
    CASE tag = "MissingField" -> "fields"
      [] tag = "Dimensions" -> "dimensions"
      [] tag = "RowCount" -> "row count"
      [] tag = "RowLength" -> "row length"
      [] tag \in {"CellType", "UnknownCell"} -> "cell code"
      [] tag \in {"StartOutOfBounds", "GoalOutOfBounds"} -> "bounds"
      [] tag \in {"StartMismatch", "GoalMismatch"} -> "mismatch"
      [] tag \in {"StartCount", "GoalCount"} -> "cardinality"
      [] OTHER -> "none"

\* the first kind of the order that the grid violates
FirstViolated(g, order) ==
    IF \E k \in 1..Len(order) : Violates(g, order[k])
    THEN order[CHOOSE k \in 1..Len(order) :
                   Violates(g, order[k]) /\ \A j \in 1..(k - 1) : ~Violates(g, order[j])]
    ELSE "none"

ReportsFirstOf(order) ==
    \A c \in CallIds :
        calls[c].pc = "raised" =>
            KindOf(Res(c).message.tag) = FirstViolated(grid_data, order)

(* C21 as claimed: the order is required fields, positive dimensions,  *)
(* row count, row lengths, unrecognised cell codes, start/goal in      *)
(* bounds, start/goal cell mismatch, Start/Goal cardinality; a grid    *)
(* with an unrecognised code and an out-of-bounds start or goal is     *)
(* reported as an unknown cell code.                                   *)
C21_CellCodesBeforeBounds ==
    ReportsFirstOf(<<"fields", "dimensions", "row count", "row length", "cell code",
                     "bounds", "mismatch", "cardinality">>)

(* C21, amended: the order is required fields, positive dimensions,    *)
(* row count, row lengths, start/goal in bounds, unrecognised cell     *)
(* codes, start/goal cell mismatch, Start/Goal cardinality; a grid     *)
(* with an unrecognised code and an out-of-bounds start or goal is     *)
(* reported as an out-of-bounds start or goal.                         *)
C21_BoundsBeforeCellCodes ==
    ReportsFirstOf(<<"fields", "dimensions", "row count", "row length", "bounds",
                     "cell code", "mismatch", "cardinality">>)

\* a grid with an unrecognised code and a start outside was reported for its start
C21_Witness ==
    /\ calls[1].pc = "raised"
    /\ Violates(grid_data, "cell code") /\ ~InGrid(grid_data, grid_data.start)
    /\ Res(1).message.tag = "StartOutOfBounds"

(* ------------------------------------------------------------------ *)
(* C22  Independent simulations do not interfere.  When several calls  *)
(* of validate_moves over the same grid are interleaved step by step,  *)
(* each returns exactly the result it returns when run alone: a call   *)
(* owns its position, key set, step counter and trace, and nothing     *)
(* survives between calls.                                             *)
(* ------------------------------------------------------------------ *)
C22_NoInterference ==
    \A c \in CallIds :
        Finished(c) =>
            /\ Res(c) \in validate_moves(grid_data, MovesOf(c))
            /\ \A r \in validate_moves(grid_data, MovesOf(c)) : SameOutcome(r, Res(c))

\* two different simulations ended differently, the second one first, while the
\* first was still in the middle of a portal chain
C22_Witness ==
    /\ calls[1].pc = "resolve" /\ calls[1].jumps_made >= 1
    /\ calls[2].pc = "done" /\ Res(2).steps >= 2
    /\ MovesOf(1) # MovesOf(2)

(* ------------------------------------------------------------------ *)
(* C23  get_puzzle_statistics on a valid grid reports rows, cols,      *)
(* total_cells = rows * cols, and counts of wall, key, door, portal    *)
(* (every code starting with 'P') and empty cells equal to the number  *)
(* of cells of each kind, so that walls + keys + doors + portals +     *)
(* empty_cells + 2 = total_cells, and echoes start, goal and max_steps *)
(* (1000 when absent); on an invalid grid it returns an error value    *)
(* and does not raise.                                                 *)
(* ------------------------------------------------------------------ *)
C23_Statistics ==
    \A c \in CallIds :
        calls[c].pc # "idle" =>
            LET g == grid_data
                st == calls[c].result
            IN  /\ calls[c].pc = "stats"
                /\ IF WellFormed(g)
                   THEN /\ st.kind = "stats"
                        /\ st.dimensions = [rows |-> g.rows, cols |-> g.cols]
                        /\ st.total_cells = g.rows * g.cols
                        /\ st.walls = NumberOf(g, <<"W">>)
                        /\ st.keys = NumberOf(g, <<"K">>)
                        /\ st.doors = NumberOf(g, <<"D">>)
                        /\ st.portals = Cardinality({p \in Positions(g) : IsPortal(g, p)})
                        /\ st.empty_cells = NumberOf(g, <<" ">>)
                        /\ st.walls + st.keys + st.doors + st.portals + st.empty_cells + 2
                              = st.total_cells
                        /\ st.start = g.start /\ st.goal = g.goal
                        /\ st.max_steps = Limit(g)
                   ELSE st.kind = "error" /\ st.error # OK

\* statistics of a grid with a wall, a key and two portals, no max_steps rule given
C23_Witness ==
    /\ calls[1].pc = "stats" /\ calls[1].result.kind = "stats"
    /\ calls[1].result.walls = 1 /\ calls[1].result.keys = 1
    /\ calls[1].result.portals = 2 /\ calls[1].result.max_steps = 1000

(* ------------------------------------------------------------------ *)
(* C24  A move whose target is out of bounds or a wall cell ends the   *)
(* attempt with a failure and leaves the attempt as it was before the  *)
(* move except for the step counter: final_position is the position    *)
(* before the move, the trace gains no entry and the key set is        *)
(* unchanged.                                                          *)
(* ------------------------------------------------------------------ *)
\* the cell the next move of call c steps onto
Target(c) ==
    LET d == Delta(TrimUpper(moves[calls[c].i + 1]))
    IN  Pos(calls[c].pos.r + d.r, calls[c].pos.c + d.c)

\* this step of call c examines a move in one of the four directions, within the step limit
Steps(c) ==
    /\ Examines(c)
    /\ calls[c].i + 1 <= Limit(grid_data)
    /\ TrimUpper(moves[calls[c].i + 1]) \in Directions

Blocked(g, p) == ~InGrid(g, p) \/ CellAt(g, p) = <<"W">>

C24_BlockedMoveFrame ==
    [][\A c \in CallIds :
          Steps(c) =>
              IF Blocked(grid_data, Target(c))
              THEN /\ calls'[c].pc = "done"
                   /\ ~calls'[c].result.success
                   /\ calls'[c].result.message.tag =
                         (IF InGrid(grid_data, Target(c)) THEN "HitsWall" ELSE "OutOfBounds")
                   /\ calls'[c].result.message.index = calls[c].i + 1
                   /\ calls'[c].result.steps = calls[c].steps + 1
                   /\ calls'[c].result.final_position = calls[c].pos
                   /\ calls'[c].result.trace = calls[c].trace
                   /\ Range(calls'[c].result.keys_collected) = calls[c].keys_collected
                   /\ calls'[c].pos = calls[c].pos
                   /\ calls'[c].trace = calls[c].trace
                   /\ calls'[c].keys_collected = calls[c].keys_collected
              ELSE calls'[c].result.message.tag \notin {"HitsWall", "OutOfBounds"}]_vars

\* the second move ran into a wall: the result shows the cell reached by the first
C24_Witness ==
    \E c \in CallIds :
        /\ Failure(c, "HitsWall") /\ Res(c).message.index = 2
        /\ Len(Res(c).trace) = 2
        /\ Res(c).final_position = Res(c).trace[2]
        /\ Res(c).final_position # Res(c).message.pos

(* ------------------------------------------------------------------ *)
(* C25  A failing portal resolution (jump limit, loop, unknown label,  *)
(* target out of bounds, teleport into a wall) ends the attempt with a *)
(* failure that carries the trace accumulated before the move: none of *)
(* the hops followed in the failing chain is added, final_position is  *)
(* the position before the move and the key set is unchanged.          *)
(* ------------------------------------------------------------------ *)
PortalErrors ==
    {"JumpLimit", "PortalLoop", "PortalNotFound", "PortalTargetOutOfBounds", "TeleportedIntoWall"}

C25_PortalFailureFrame ==
    [][\A c \in CallIds :
          /\ (calls[c].pc \in {"loop", "resolve"} /\ calls'[c].pc = "resolve") =>
                /\ calls'[c].pos = calls[c].pos
                /\ calls'[c].trace = calls[c].trace
                /\ calls'[c].keys_collected = calls[c].keys_collected
                /\ calls'[c].i = calls[c].i
          /\ (calls[c].pc = "resolve" /\ calls'[c].pc = "done"
              /\ calls'[c].result.message.prefix = "Portal error") =>
                /\ ~calls'[c].result.success
                /\ calls'[c].result.message.tag \in PortalErrors
                /\ calls'[c].result.trace = calls[c].trace
                /\ calls'[c].result.final_position = calls[c].pos
                /\ Range(calls'[c].result.keys_collected) = calls[c].keys_collected
                /\ calls'[c].result.steps = calls[c].i + 1
          /\ (calls[c].pc = "resolve" /\ calls'[c].pc = "done"
              /\ calls'[c].result.message.tag \in PortalErrors) =>
                calls'[c].result.message.prefix = "Portal error"]_vars

\* a chain failed after three hops: the result has the start alone in its trace
C25_Witness ==
    \E c \in CallIds :
        /\ PortalFailed(c) /\ Res(c).message.tag = "TeleportedIntoWall"
        /\ Len(calls[c].teleport_trace) = 3
        /\ Res(c).trace = <<grid_data.start>>
        /\ Res(c).final_position = grid_data.start

(* ------------------------------------------------------------------ *)
(* C26  In resolve_portals the checks at a portal cell are made in the *)
(* order jump cap, loop, unknown label, target out of bounds, and the  *)
(* wall check is made once, after the chain has ended.  So a chain     *)
(* that comes onto an already visited label after exactly 10 hops      *)
(* fails with the jump-limit error, a revisited label is never absent  *)
(* from the mapping, and a hop target that is a wall cell fails with   *)
(* the teleport-into-wall error.                                       *)
(* ------------------------------------------------------------------ *)
\* the labels of the portals followed in the h hops from p
Followed(g, p, h) == {CellAt(g, Follow(g, p, h)[a]) : a \in 1..h}

HasEntry(g, label) == "portals" \in g.fields /\ \E e \in g.portals : e.label = label

\* what the iteration at cell cur, after h hops from p, must end with
Verdict(g, p, h, cur) ==
    IF IsPortal(g, cur)
    THEN CASE h >= 10 -> "JumpLimit"
           [] h < 10 /\ CellAt(g, cur) \in Followed(g, p, h) -> "PortalLoop"
           [] h < 10 /\ CellAt(g, cur) \notin Followed(g, p, h) /\ ~HasEntry(g, CellAt(g, cur)) ->
                 "PortalNotFound"
           [] OTHER -> IF Mapped(g, cur) THEN "hop" ELSE "PortalTargetOutOfBounds"
    ELSE IF CellAt(g, cur) = <<"W">> THEN "TeleportedIntoWall" ELSE "lands"

C26_CheckOrder ==
    /\ [][\A c \in CallIds :
             (calls[c].pc = "resolve" /\ calls'[c] # calls[c]) =>
                 LET v == Verdict(grid_data, calls[c].new_pos, calls[c].jumps_made, calls[c].current)
                 IN  CASE v = "hop" -> /\ calls'[c].pc = "resolve"
                                       /\ calls'[c].jumps_made = calls[c].jumps_made + 1
                       [] v = "lands" -> /\ calls'[c].result.message.prefix # "Portal error"
                                         /\ calls'[c].pos = calls[c].current
                       [] OTHER -> /\ calls'[c].pc = "done"
                                   /\ calls'[c].result.message.prefix = "Portal error"
                                   /\ calls'[c].result.message.tag = v]_vars
    /\ [](\A c \in CallIds :
             calls[c].pc = "resolve" =>
                 /\ InGrid(grid_data, calls[c].current)
                 /\ calls[c].visited_labels =
                       Followed(grid_data, calls[c].new_pos, calls[c].jumps_made)
                 /\ \A l \in calls[c].visited_labels : HasEntry(grid_data, l)
                 /\ calls[c].jumps_made >= 1 =>
                       calls[c].current =
                           After(grid_data, calls[c].new_pos, calls[c].jumps_made))

\* after exactly 10 hops the chain stood on its first label again: the jump-limit error
C26_Witness ==
    \E c \in CallIds :
        /\ Failure(c, "JumpLimit")
        /\ calls[c].jumps_made = 10
        /\ CellAt(grid_data, calls[c].current) \in calls[c].visited_labels
        /\ calls[c].current = calls[c].new_pos

(* ------------------------------------------------------------------ *)
(* C27  Whenever resolve_portals succeeds when called on a portal      *)
(* cell, 1 <= jump_count <= 10, teleport_trace has exactly jump_count  *)
(* entries, all of them in bounds, its last entry is final_position,   *)
(* every entry but the last is a portal cell, the labels followed are  *)
(* pairwise distinct, and the cell at final_position is neither a      *)
(* portal nor a wall.                                                  *)
(* ------------------------------------------------------------------ *)
C27_SuccessfulResolution ==
    [][\A c \in CallIds :
          (Resolved(c) /\ IsPortal(grid_data, calls[c].new_pos)) =>
              LET g == grid_data
                  jump_count == calls'[c].jumps_made
                  teleport_trace == calls'[c].teleport_trace
                  final_position == calls'[c].pos
                  \* the cells whose labels were followed: the cell of the call, then the hops
                  stood == <<calls[c].new_pos>> \o teleport_trace
              IN  /\ 1 <= jump_count /\ jump_count <= 10
                  /\ Len(teleport_trace) = jump_count
                  /\ \A a \in 1..jump_count : InGrid(g, teleport_trace[a])
                  /\ teleport_trace[jump_count] = final_position
                  /\ \A a \in 1..(jump_count - 1) : IsPortal(g, teleport_trace[a])
                  /\ \A a, b \in 1..jump_count :
                         a # b => CellAt(g, stood[a]) # CellAt(g, stood[b])
                  /\ ~IsPortal(g, final_position)
                  /\ CellAt(g, final_position) # <<"W">>]_vars

\* a call stands, after a resolution of exactly 10 hops, on the cell the hops end in
C27_Witness ==
    \E c \in CallIds :
        /\ calls[c].pc \in {"loop", "done"}
        /\ calls[c].result.message.prefix # "Portal error"
        /\ calls[c].jumps_made = 10
        /\ Len(calls[c].teleport_trace) = 10
        /\ calls[c].pos = calls[c].teleport_trace[10]
        /\ Hops(grid_data, calls[c].teleport_trace[1], 9)
        /\ ~IsPortal(grid_data, calls[c].pos)

(* ------------------------------------------------------------------ *)
(* C28  The key, door and goal effects of a teleporting move are       *)
(* decided by the cell at the resolved final position, not by the      *)
(* portal cell stepped on: teleporting onto a key cell collects that   *)
(* key under the final cell's coordinates, teleporting onto a door     *)
(* applies the door rule, and teleporting onto the goal ends the       *)
(* attempt under the goal rule.                                        *)
(* ------------------------------------------------------------------ *)
\* the identifier of the key at p: key_<row>_<col>
KeyAt(p) == <<"k", "e", "y", "_">> \o Str(p.r) \o <<"_">> \o Str(p.c)

\* this step of call c is a move that teleports
Teleports(c) == Resolved(c) /\ calls[c].jumps_made >= 1

C28_EffectsAtFinalPosition ==
    [][\A c \in CallIds :
          Teleports(c) =>
              LET g == grid_data
                  final == After(g, calls[c].new_pos, calls[c].jumps_made)
                  held == calls[c].keys_collected
                  now == calls'[c].keys_collected
                  refused == DoorsLocked(g) /\ held = {}
              IN  /\ calls'[c].pos = final
                  /\ now = IF CellAt(g, final) = <<"K">> THEN held \cup {KeyAt(final)} ELSE held
                  /\ IF CellAt(g, final) = <<"D">> /\ refused
                     THEN /\ calls'[c].pc = "done" /\ ~calls'[c].result.success
                          /\ calls'[c].result.message.tag = "DoorRequiresKey"
                     ELSE IF final = g.goal
                     THEN /\ calls'[c].pc = "done"
                          /\ calls'[c].result.success =
                                ~(AllKeysNeeded(g) /\ Cardinality(now) < Cardinality(KeyCells(g)))
                          /\ calls'[c].result.message.tag =
                                IF calls'[c].result.success THEN "GoalReached"
                                                            ELSE "MustCollectAllKeys"
                     ELSE calls'[c].pc = "loop" /\ calls'[c].i = calls[c].i + 1]_vars

\* a call has teleported onto a key cell and holds the key of that cell
C28_Witness ==
    \E c \in CallIds :
        /\ calls[c].pc \in {"loop", "done"}
        /\ calls[c].jumps_made >= 1
        /\ Len(calls[c].teleport_trace) = calls[c].jumps_made
        /\ calls[c].pos = calls[c].teleport_trace[calls[c].jumps_made]
        /\ CellAt(grid_data, calls[c].pos) = <<"K">>
        /\ calls[c].keys_collected = {KeyAt(calls[c].pos)}
        /\ calls[c].trace[Len(calls[c].trace)] = calls[c].pos

(* ------------------------------------------------------------------ *)
(* C29  A portal cell whose label is missing from the portals mapping  *)
(* does not make the grid invalid: validation succeeds, an attempt     *)
(* that never comes onto that cell ends as it does on the grid with    *)
(* the label mapped, and a move that lands on the cell ends the        *)
(* attempt with a returned failure (unknown portal), not with a        *)
(* structural error.                                                   *)
(* ------------------------------------------------------------------ *)
\* the portal cells of a well-formed grid whose label has no entry in the mapping
Unmapped(g) ==
    IF WellFormed(g)
    THEN {p \in Positions(g) : IsPortal(g, p) /\ ~HasEntry(g, CellAt(g, p))}
    ELSE {}

\* the grid with every such label mapped (to the start cell)
Completed(g) ==
    [g EXCEPT !.fields = @ \cup {"portals"},
              !.portals = (IF "portals" \in g.fields THEN @ ELSE {})
                             \cup {[label |-> CellAt(g, p), target |-> g.start] : p \in Unmapped(g)}]

\* call c ended on a portal cell whose label the mapping lacks
EndedOnUnmapped(c) ==
    /\ calls[c].pc = "done" /\ Res(c).message.prefix = "Portal error"
    /\ calls[c].current \in Unmapped(grid_data)

C29_UnmappedPortal ==
    /\ [](Unmapped(grid_data) # {} =>
             /\ validate_puzzle_grid(grid_data) = OK
             /\ \A c \in CallIds :
                   /\ calls[c].pc # "raised"
                   /\ (JustEnded(c) /\ ~EndedOnUnmapped(c)) =>
                         Res(c) \in validate_moves(Completed(grid_data), moves))
    \* the move steps on the cell (no hop made yet), or a chain of fewer
    \* than 10 hops comes onto it
    /\ [][\A c \in CallIds :
             (/\ calls[c].pc = "resolve" /\ calls'[c] # calls[c]
              /\ calls[c].current \in Unmapped(grid_data)) =>
                 /\ calls'[c].pc = "done"
                 /\ calls'[c].result.kind = "returned"
                 /\ ~calls'[c].result.success
                 /\ calls'[c].result.message.prefix = "Portal error"
                 /\ calls[c].jumps_made < 10 =>
                       /\ calls'[c].result.message.tag = "PortalNotFound"
                       /\ calls'[c].result.message.label =
                             CellAt(grid_data, calls[c].current)]_vars

\* the first move stepped on such a cell and the attempt ended there, unknown portal
C29_Witness ==
    \E c \in CallIds :
        /\ Failure(c, "PortalNotFound")
        /\ calls[c].steps = 1 /\ calls[c].jumps_made = 0
        /\ calls[c].new_pos \in Unmapped(grid_data)
        /\ Res(c).final_position = grid_data.start

(* ------------------------------------------------------------------ *)
(* C30  No validated grid has its start equal to its goal, so the      *)
(* immediate-goal shortcut is never taken: validate_moves never        *)
(* returns success with steps = 0, and every successful result has     *)
(* steps >= 1.                                                         *)
(* ------------------------------------------------------------------ *)
C30_ShortcutNeverTaken ==
    \A c \in CallIds :
        /\ grid_data.start = grid_data.goal => calls[c].pc \in {"idle", "raised"}
        /\ Res(c).kind = "returned" =>
              /\ Res(c).message.tag # "AlreadyAtGoal"
              /\ ~(Res(c).success /\ Res(c).steps = 0)
              /\ Res(c).success => (Res(c).steps >= 1 /\ Len(Res(c).trace) >= 2)

\* a grid whose goal position is its start cell has been refused: the cell there is 'S'
C30_Witness ==
    \E c \in CallIds :
        /\ grid_data.start = grid_data.goal
        /\ Rectangular(grid_data) /\ InGrid(grid_data, grid_data.start)
        /\ CellAt(grid_data, grid_data.start) = <<"S">>
        /\ calls[c].pc = "raised"
        /\ Res(c).message.tag = "GoalMismatch"

(* ------------------------------------------------------------------ *)
(* C31  In every result of validate_moves, and after every processed   *)
(* move, the first trace entry is the start position and               *)
(* final_position (the current position) is the last trace entry.      *)
(* ------------------------------------------------------------------ *)
C31_TraceEnds ==
    \A c \in CallIds :
        /\ calls[c].pc \in {"loop", "resolve", "done"} =>
              /\ Len(calls[c].trace) >= 1
              /\ calls[c].trace[1] = grid_data.start
              /\ calls[c].trace[Len(calls[c].trace)] = calls[c].pos
        /\ Res(c).kind = "returned" =>
              /\ Len(Res(c).trace) >= 1
              /\ Res(c).trace[1] = grid_data.start
              /\ Res(c).trace[Len(Res(c).trace)] = Res(c).final_position

\* a result after three processed moves that ends away from the start
C31_Witness ==
    \E c \in CallIds :
        /\ calls[c].pc = "done" /\ Res(c).steps = 3
        /\ Len(Res(c).trace) = 4
        /\ Res(c).trace[1] = grid_data.start
        /\ Res(c).final_position = Res(c).trace[4]
        /\ Res(c).final_position # grid_data.start

(* ------------------------------------------------------------------ *)
(* C32  After any sequence of moves on a valid grid the current        *)
(* position is in bounds and its cell is neither a wall nor a portal,  *)
(* and every trace entry is in bounds and not a wall cell.             *)
(* ------------------------------------------------------------------ *)
Open(g, p) == InGrid(g, p) /\ CellAt(g, p) # <<"W">>

C32_PositionSafety ==
    \A c \in CallIds :
        calls[c].pc \in {"loop", "resolve", "done"} =>
            /\ WellFormed(grid_data)
            /\ Open(grid_data, calls[c].pos) /\ ~IsPortal(grid_data, calls[c].pos)
            /\ \A k \in 1..Len(calls[c].trace) : Open(grid_data, calls[c].trace[k])
            /\ calls[c].pc = "done" =>
                  /\ Open(grid_data, Res(c).final_position)
                  /\ ~IsPortal(grid_data, Res(c).final_position)
                  /\ \A k \in 1..Len(Res(c).trace) : Open(grid_data, Res(c).trace[k])

\* two moves were made, one of them through a chain whose hops, portal cells,
\* are in the trace
C32_Witness ==
    \E c \in CallIds :
        /\ calls[c].pc \in {"loop", "done"} /\ calls[c].steps = 2
        /\ \E k \in 1..Len(calls[c].trace) : IsPortal(grid_data, calls[c].trace[k])
        /\ Open(grid_data, calls[c].pos) /\ ~IsPortal(grid_data, calls[c].pos)

(* ------------------------------------------------------------------ *)
(* C33  Locked-door and incomplete-keys failures are decided after the *)
(* move is applied: in those results final_position is the door cell   *)
(* (respectively the goal) and the trace ends with it, whereas in      *)
(* wall, out-of-bounds, unknown-token, portal-error and step-limit     *)
(* failures final_position and trace are those from before the failing *)
(* move.                                                               *)
(* ------------------------------------------------------------------ *)
AfterTheMove == {"DoorRequiresKey", "MustCollectAllKeys"}

BeforeTheMove ==
    {"HitsWall", "OutOfBounds", "InvalidMove", "StepLimitExceeded"} \cup PortalErrors

\* this step ends call c in the middle of a move
FailsAMove(c) ==
    /\ calls[c].pc \in {"loop", "resolve"} /\ calls'[c].pc = "done"
    /\ ~calls'[c].result.success
    /\ calls'[c].result.message.tag # "MovesExhausted"

C33_FailureFrames ==
    [][\A c \in CallIds :
          FailsAMove(c) =>
              LET r == calls'[c].result
                  tag == r.message.tag
              IN  /\ tag \in AfterTheMove \cup BeforeTheMove
                  /\ tag \in AfterTheMove =>
                        /\ Len(r.trace) > Len(calls[c].trace)
                        /\ SubSeq(r.trace, 1, Len(calls[c].trace)) = calls[c].trace
                        /\ r.trace[Len(r.trace)] = r.final_position
                        /\ IF tag = "DoorRequiresKey"
                           THEN CellAt(grid_data, r.final_position) = <<"D">>
                           ELSE r.final_position = grid_data.goal
                  /\ tag \in BeforeTheMove =>
                        /\ r.final_position = calls[c].pos
                        /\ r.trace = calls[c].trace]_vars

\* the first move went onto a locked door: the result stands on the door cell
C33_Witness ==
    \E c \in CallIds :
        /\ Failure(c, "DoorRequiresKey")
        /\ Res(c).steps = 1 /\ Len(Res(c).trace) = 2
        /\ CellAt(grid_data, Res(c).final_position) = <<"D">>
        /\ Res(c).trace[2] = Res(c).final_position
        /\ Res(c).trace[1] = grid_data.start
        /\ grid_data.start # Res(c).final_position

(* ------------------------------------------------------------------ *)
(* C34  A result has success = true only if final_position is the      *)
(* goal and, when collect_all_keys is true, only if keys_collected     *)
(* holds one identifier for every 'K' cell of the grid; in every       *)
(* result keys_collected is a subset of the identifiers of the grid's  *)
(* 'K' cells, and a result whose final_position is the goal is either  *)
(* a success or the incomplete-keys failure.                           *)
(* ------------------------------------------------------------------ *)
KeyIdentifiers(g) == {KeyAt(p) : p \in KeyCells(g)}

C34_SuccessConditions ==
    \A c \in CallIds :
        Res(c).kind = "returned" =>
            LET r == Res(c)
                g == grid_data
            IN  /\ r.success =>
                      /\ r.final_position = g.goal
                      /\ AllKeysNeeded(g) =>
                            /\ Range(r.keys_collected) = KeyIdentifiers(g)
                            /\ Len(r.keys_collected) = Cardinality(KeyCells(g))
                /\ Range(r.keys_collected) \subseteq KeyIdentifiers(g)
                /\ r.final_position = g.goal =>
                      (r.success \/ r.message.tag = "MustCollectAllKeys")

\* with collect_all_keys set, a success that holds the keys of both key cells
C34_Witness ==
    \E c \in CallIds :
        /\ calls[c].pc = "done" /\ Res(c).success
        /\ AllKeysNeeded(grid_data)
        /\ Cardinality(KeyCells(grid_data)) = 2
        /\ Range(Res(c).keys_collected) = KeyIdentifiers(grid_data)
        /\ Res(c).final_position = grid_data.goal

(* ------------------------------------------------------------------ *)
(* C35  The check of the cells at start and goal runs before the       *)
(* cardinality check: a grid with no 'S' cell (or no 'G' cell) that    *)
(* comes to these checks is always reported as a start/goal mismatch,  *)
(* never as a cardinality error, and the cardinality error is only     *)
(* ever raised with a count of at least 2.                             *)
(* ------------------------------------------------------------------ *)
\* the grid fails one of the checks made before the cells at start and goal
FailsEarlier(g) ==
    \E kind \in {"fields", "dimensions", "row count", "row length", "bounds", "cell code"} :
        Violates(g, kind)

Lacks(g, code) == Rectangular(g) /\ NumberOf(g, code) = 0

StoredBy(c) == calls[c].committed

====
